---------------------------- MODULE Spec2Model ----------------------------
(***************************************************************************)
(* Model of the parts-inspection application (src/app.py).                 *)
(*                                                                         *)
(* Text is modelled as a sequence of characters, each character a string  *)
(* of the module.  The module is written in ASCII, so three pieces of     *)
(* non-ASCII text of the source have ASCII names here:                     *)
(*     "+-"    the character U+00B1 (plus-minus sign) of the criteria      *)
(*     "PASS"  the judgment string of app.py line 268 / 287 / 299          *)
(*     "FAIL"  the judgment string of app.py line 270 / 289 / 301          *)
(* The empty judgment "" of the source is the empty string here.           *)
(***************************************************************************)
EXTENDS Integers, Sequences, FiniteSets, TLC

(***************************************************************************)
(* Text primitives (Python str methods used by app.py)                     *)
(***************************************************************************)

PM == "+-"

PASS == "PASS"

FAIL == "FAIL"

Digits == {"0", "1", "2", "3", "4", "5", "6", "7", "8", "9"}

DigitVal(c) ==
    CASE c = "0" -> 0 [] c = "1" -> 1 [] c = "2" -> 2 [] c = "3" -> 3
      [] c = "4" -> 4 [] c = "5" -> 5 [] c = "6" -> 6 [] c = "7" -> 7
      [] c = "8" -> 8 [] c = "9" -> 9

\* str.isspace() on one character, for the characters of the model
IsSpace(c) == c = " "

RECURSIVE lstrip(_)
lstrip(s) ==
    IF s # <<>> /\ IsSpace(Head(s)) THEN lstrip(Tail(s)) ELSE s

RECURSIVE rstrip(_)
rstrip(s) ==
    IF s # <<>> /\ IsSpace(s[Len(s)]) THEN rstrip(SubSeq(s, 1, Len(s) - 1)) ELSE s

\* str.strip()
strip(s) == rstrip(lstrip(s))

\* str.upper() on one character: the letters of the model, others unchanged
UpperChar(c) ==
    CASE c = "o" -> "O" [] c = "k" -> "K" [] c = "n" -> "N"
      [] c = "g" -> "G" [] c = "a" -> "A" [] OTHER -> c

\* str.upper()
upper(s) == [i \in 1..Len(s) |-> UpperChar(s[i])]

\* str.replace(old, new) for single characters
replace(s, old, new) == [i \in 1..Len(s) |-> IF s[i] = old THEN new ELSE s[i]]

\* the Python test `c in s` for a single character c
Contains(s, c) == \E i \in 1..Len(s) : s[i] = c

(***************************************************************************)
(* IEEE 754 binary64, as Python's float: the finite values, the zeros and  *)
(* NaN (no input of the model overflows).  A finite non-zero value is      *)
(*     (-1)^neg * m * 2^(e - 52)                                           *)
(* with m a sequence of MantissaBits bits, most significant first, whose   *)
(* first bit is 1.                                                         *)
(***************************************************************************)

MantissaBits == 53

NaN == [cls |-> "nan"]

Zero(neg) == [cls |-> "zero", neg |-> neg]

Fin(neg, e, m) == [cls |-> "fin", neg |-> neg, e |-> e, m |-> m]

Pow2(k) == 2 ^ k

Pow10(k) == 10 ^ k

Zeros(k) == [i \in 1..k |-> 0]

\* bits (most significant first) to their value and back; at most ChunkBits bits,
\* so that every intermediate value fits a 32-bit integer
ChunkBits == 12

RECURSIVE BitsToInt(_)
BitsToInt(b) ==
    IF b = <<>> THEN 0 ELSE 2 * BitsToInt(SubSeq(b, 1, Len(b) - 1)) + b[Len(b)]

IntToBits(v, w) == [i \in 1..w |-> (v \div Pow2(w - i)) % 2]

\* the bits of a magnitude plus one, same length; an all-ones input wraps to zeros
IncBits(m) ==
    [i \in 1..Len(m) |->
        IF \A j \in (i + 1)..Len(m) : m[j] = 1 THEN 1 - m[i] ELSE m[i]]

StripZeros(m) ==
    IF \A i \in 1..Len(m) : m[i] = 0 THEN <<>>
    ELSE SubSeq(m, CHOOSE i \in 1..Len(m) :
                       m[i] = 1 /\ \A j \in 1..(i - 1) : m[j] = 0, Len(m))

\* round-to-nearest, ties-to-even, of the magnitude `bits` (first bit 1, any
\* length) in units of 2^unit, with `sticky` telling whether a non-zero rest
\* lies below the last bit
RoundToFloat(neg, bits, unit, sticky) ==
    LET L == Len(bits)
        e == unit + L - 1
    IN  IF L <= MantissaBits
        THEN Fin(neg, e, bits \o Zeros(MantissaBits - L))
        ELSE LET m     == SubSeq(bits, 1, MantissaBits)
                 guard == bits[MantissaBits + 1]
                 rest  == sticky \/ \E i \in (MantissaBits + 2)..L : bits[i] = 1
                 up    == guard = 1 /\ (rest \/ m[MantissaBits] = 1)
                 inc   == IncBits(m)
             IN  IF ~up THEN Fin(neg, e, m)
                 ELSE IF Head(inc) = 1 THEN Fin(neg, e, inc)
                 ELSE Fin(neg, e + 1, <<1>> \o Zeros(MantissaBits - 1))

\* the first k bits of the binary expansion of r / D (0 <= r < D) after the
\* point, ChunkBits bits at a time (long division)
RECURSIVE FracBits(_, _, _)
FracBits(r, D, k) ==
    IF k = 0 THEN <<>>
    ELSE IF k <= ChunkBits THEN IntToBits((r * Pow2(k)) \div D, k)
    ELSE IntToBits((r * Pow2(ChunkBits)) \div D, ChunkBits)
            \o FracBits((r * Pow2(ChunkBits)) % D, D, k - ChunkBits)

\* the remainder left after those k bits
RECURSIVE FracRem(_, _, _)
FracRem(r, D, k) ==
    IF k = 0 THEN r
    ELSE IF k <= ChunkBits THEN (r * Pow2(k)) % D
    ELSE FracRem((r * Pow2(ChunkBits)) % D, D, k - ChunkBits)

\* the largest k with d * 2^k <= n   (n >= d >= 1)
RECURSIVE ShiftDown(_, _)
ShiftDown(n, d) == IF 2 * d <= n THEN 1 + ShiftDown(n, 2 * d) ELSE 0

\* the smallest k with n * 2^k >= d   (1 <= n)
RECURSIVE ShiftUp(_, _)
ShiftUp(n, d) == IF n >= d THEN 0 ELSE 1 + ShiftUp(2 * n, d)

\* the binary64 value nearest to n / d  (n >= 0, d >= 1): correctly rounded,
\* as the decimal-to-float conversion of float() is
FloatOfRatio(neg, n, d) ==
    IF n = 0 THEN Zero(neg)
    ELSE LET up == ShiftUp(n, d)
             dn == IF n >= d THEN ShiftDown(n, d) ELSE 0
             N  == n * Pow2(up)
             D  == d * Pow2(dn)
             e  == dn - up
             \* N / D lies in [1, 2): the leading bit, then the fraction
             bits == <<1>> \o FracBits(N - D, D, MantissaBits)
             rem  == FracRem(N - D, D, MantissaBits)
         IN  RoundToFloat(neg, bits, e - MantissaBits, rem # 0)

\* magnitude comparison of two bit sequences of the same length: -1, 0, 1
CmpBits(a, b) ==
    IF a = b THEN 0
    ELSE IF a[CHOOSE i \in 1..Len(a) :
                  a[i] # b[i] /\ \A j \in 1..(i - 1) : a[j] = b[j]] = 0 THEN -1
    ELSE 1

\* a + b + c for bit sequences of the same length (c the carry in, 0 or 1); the
\* result is one bit longer
RECURSIVE AddCarry(_, _, _)
AddCarry(a, b, c) ==
    IF c \notin {0, 1} THEN <<>>
    ELSE IF Len(a) <= ChunkBits
    THEN IntToBits(BitsToInt(a) + BitsToInt(b) + c, Len(a) + 1)
    ELSE AddCarry(SubSeq(a, 1, Len(a) - ChunkBits), SubSeq(b, 1, Len(b) - ChunkBits),
                  (BitsToInt(SubSeq(a, Len(a) - ChunkBits + 1, Len(a)))
                     + BitsToInt(SubSeq(b, Len(b) - ChunkBits + 1, Len(b))) + c)
                    \div Pow2(ChunkBits))
            \o IntToBits((BitsToInt(SubSeq(a, Len(a) - ChunkBits + 1, Len(a)))
                            + BitsToInt(SubSeq(b, Len(b) - ChunkBits + 1, Len(b))) + c)
                           % Pow2(ChunkBits), ChunkBits)

\* a - b - c for bit sequences of the same length, a >= b + c (c the borrow, 0 or 1)
RECURSIVE SubBorrow(_, _, _)
SubBorrow(a, b, c) ==
    IF c \notin {0, 1} THEN <<>>
    ELSE IF Len(a) <= ChunkBits
    THEN IntToBits(BitsToInt(a) - BitsToInt(b) - c, Len(a))
    ELSE SubBorrow(SubSeq(a, 1, Len(a) - ChunkBits), SubSeq(b, 1, Len(b) - ChunkBits),
                   IF BitsToInt(SubSeq(a, Len(a) - ChunkBits + 1, Len(a)))
                        - BitsToInt(SubSeq(b, Len(b) - ChunkBits + 1, Len(b))) - c < 0
                   THEN 1 ELSE 0)
            \o IntToBits((BitsToInt(SubSeq(a, Len(a) - ChunkBits + 1, Len(a)))
                            - BitsToInt(SubSeq(b, Len(b) - ChunkBits + 1, Len(b))) - c
                            + Pow2(ChunkBits)) % Pow2(ChunkBits), ChunkBits)

\* comparison of the magnitudes of two finite non-zero values: -1, 0, 1
CmpMag(x, y) ==
    IF x.e < y.e THEN -1 ELSE IF x.e > y.e THEN 1 ELSE CmpBits(x.m, y.m)

\* float.__add__: the exact sum, rounded once
FloatAdd(x, y) ==
    IF x.cls = "nan" \/ y.cls = "nan" THEN NaN
    ELSE IF x.cls = "zero" /\ y.cls = "zero" THEN Zero(x.neg /\ y.neg)
    ELSE IF x.cls = "zero" THEN y
    ELSE IF y.cls = "zero" THEN x
    ELSE LET emin == IF x.e < y.e THEN x.e ELSE y.e
             xa   == x.m \o Zeros(x.e - emin)
             ya   == y.m \o Zeros(y.e - emin)
             w    == IF Len(xa) > Len(ya) THEN Len(xa) ELSE Len(ya)
             xs   == Zeros(w - Len(xa)) \o xa
             ys   == Zeros(w - Len(ya)) \o ya
             unit == emin - (MantissaBits - 1)
         IN  IF x.neg = y.neg
             THEN RoundToFloat(x.neg, StripZeros(AddCarry(xs, ys, 0)), unit, FALSE)
             ELSE LET c == CmpBits(xs, ys)
                  IN  IF c = 0 THEN Zero(FALSE)
                      ELSE IF c > 0
                      THEN RoundToFloat(x.neg, StripZeros(SubBorrow(xs, ys, 0)), unit, FALSE)
                      ELSE RoundToFloat(y.neg, StripZeros(SubBorrow(ys, xs, 0)), unit, FALSE)

FloatNeg(x) ==
    IF x.cls = "nan" THEN x
    ELSE IF x.cls = "zero" THEN Zero(~x.neg)
    ELSE Fin(~x.neg, x.e, x.m)

\* float.__sub__
FloatSub(x, y) == FloatAdd(x, FloatNeg(y))

\* float.__le__: false when either side is NaN
FloatLe(x, y) ==
    IF x.cls = "nan" \/ y.cls = "nan" THEN FALSE
    ELSE IF x.cls = "zero" /\ y.cls = "zero" THEN TRUE
    ELSE IF x.cls = "zero" THEN ~y.neg
    ELSE IF y.cls = "zero" THEN x.neg
    ELSE IF x.neg # y.neg THEN x.neg
    ELSE IF x.neg THEN CmpMag(x, y) >= 0
    ELSE CmpMag(x, y) <= 0

(***************************************************************************)
(* float(str): Python's text-to-float conversion, for text over the        *)
(* characters of the model (space, sign, digits, point, the letters of     *)
(* "nan"); exponents, underscores and "inf" need characters the model's    *)
(* inputs do not contain.  The numerator and denominator of every number   *)
(* of the model are below 2^18.                                            *)
(***************************************************************************)

IsDecimal(t) ==
    /\ \A i \in 1..Len(t) : t[i] \in Digits \cup {"."}
    /\ \E i \in 1..Len(t) : t[i] \in Digits
    /\ Cardinality({i \in 1..Len(t) : t[i] = "."}) <= 1

\* the digits of a decimal text read as an integer, the point dropped
RECURSIVE Numerator(_)
Numerator(t) ==
    IF t = <<>> THEN 0
    ELSE IF t[Len(t)] = "." THEN Numerator(SubSeq(t, 1, Len(t) - 1))
    ELSE 10 * Numerator(SubSeq(t, 1, Len(t) - 1)) + DigitVal(t[Len(t)])

\* the number of digits after the point
FracDigits(t) ==
    IF \E i \in 1..Len(t) : t[i] = "."
    THEN Len(t) - (CHOOSE i \in 1..Len(t) : t[i] = ".")
    ELSE 0

Unsigned(t) == IF t # <<>> /\ Head(t) \in {"-", "+"} THEN Tail(t) ELSE t

IsNegative(t) == t # <<>> /\ Head(t) = "-"

ValueError == [ok |-> FALSE, exc |-> "ValueError"]

Value(v) == [ok |-> TRUE, val |-> v]

\* float(s): a value, or ValueError
float(s) ==
    IF upper(Unsigned(strip(s))) = <<"N", "A", "N">> THEN Value(NaN)
    ELSE IF IsDecimal(Unsigned(strip(s)))
    THEN Value(FloatOfRatio(IsNegative(strip(s)), Numerator(Unsigned(strip(s))),
                            Pow10(FracDigits(Unsigned(strip(s))))))
    ELSE ValueError

(***************************************************************************)
(* re.search(r"([\d.]+)SEP([\d.]+)", text): the leftmost match, each group *)
(* the longest run of digits and points on its side of the separator.      *)
(***************************************************************************)

InClass(c) == c \in Digits \cup {"."}

None == <<>>

\* the positions of the separator with a class character on both sides
SepPositions(text, sep) ==
    {k \in 2..(Len(text) - 1) :
        text[k] = sep /\ InClass(text[k - 1]) /\ InClass(text[k + 1])}

Least(S) == CHOOSE k \in S : \A j \in S : k <= j

RunStart(text, k) ==
    Least({i \in 1..(k - 1) : \A j \in i..(k - 1) : InClass(text[j])})

RunEnd(text, k) ==
    CHOOSE i \in (k + 1)..Len(text) :
        /\ \A j \in (k + 1)..i : InClass(text[j])
        /\ (i = Len(text) \/ ~InClass(text[i + 1]))

\* None, or <<match.group(1), match.group(2)>>
re_search(text, sep) ==
    IF SepPositions(text, sep) = {} THEN None
    ELSE <<SubSeq(text, RunStart(text, Least(SepPositions(text, sep))),
                  Least(SepPositions(text, sep)) - 1),
           SubSeq(text, Least(SepPositions(text, sep)) + 1,
                  RunEnd(text, Least(SepPositions(text, sep))))>>

(***************************************************************************)
(* auto_judge (app.py lines 258-306).  The outcome of a call is            *)
(*   [kind |-> "return", value |-> the judgment, branch |-> where from]    *)
(*   [kind |-> "raise",  exc |-> the exception that left the function]     *)
(* `branch` names the return statement that produced the value.            *)
(***************************************************************************)

Return(v, b) == [kind |-> "return", value |-> v, branch |-> b]

Raise(e) == [kind |-> "raise", exc |-> e]

FallThrough == [kind |-> "fallthrough"]

\* lines 286-289 and 298-301: lo <= result_value <= hi
Between(lo, v, hi, b) ==
    IF FloatLe(lo, v) /\ FloatLe(v, hi) THEN Return(PASS, b) ELSE Return(FAIL, b)

\* lines 280-289: the tolerance criteria
ToleranceBranch(result_value, criteria) ==
    IF ~Contains(criteria, PM) \/ re_search(criteria, PM) = None THEN FallThrough
    ELSE IF ~float(re_search(criteria, PM)[1]).ok THEN Raise("ValueError")
    ELSE IF ~float(re_search(criteria, PM)[2]).ok THEN Raise("ValueError")
    ELSE Between(FloatSub(float(re_search(criteria, PM)[1]).val,
                          float(re_search(criteria, PM)[2]).val),
                 result_value,
                 FloatAdd(float(re_search(criteria, PM)[1]).val,
                          float(re_search(criteria, PM)[2]).val),
                 "tolerance")

\* the range criteria with the upper bound excluded
RangeBranchExclusive(result_value, criteria) ==
    IF Contains(criteria, "-") /\ re_search(criteria, "-") # None
    THEN IF ~float(re_search(criteria, "-")[1]).ok THEN Raise("ValueError")
         ELSE IF ~float(re_search(criteria, "-")[2]).ok THEN Raise("ValueError")
         ELSE IF /\ FloatLe(float(re_search(criteria, "-")[1]).val, result_value)
                 /\ FloatLe(result_value, float(re_search(criteria, "-")[2]).val)
                 /\ ~FloatLe(float(re_search(criteria, "-")[2]).val, result_value)
              THEN Return(PASS, "range")
              ELSE Return(FAIL, "range")
    ELSE FallThrough

\* lines 292-301: the range criteria
RangeBranch(result_value, criteria) ==
    IF ~Contains(criteria, "-") \/ re_search(criteria, "-") = None THEN FallThrough
    ELSE IF ~float(re_search(criteria, "-")[1]).ok THEN Raise("ValueError")
    ELSE IF ~float(re_search(criteria, "-")[2]).ok THEN Raise("ValueError")
    ELSE Between(float(re_search(criteria, "-")[1]).val,
                 result_value,
                 float(re_search(criteria, "-")[2]).val,
                 "range")

\* the try body with the range criteria tried before the tolerance criteria
TryBodyRangeFirst(result, criteria) ==
    IF ~float(replace(result, ",", ".")).ok THEN Raise("ValueError")
    ELSE IF RangeBranch(float(replace(result, ",", ".")).val, criteria) # FallThrough
    THEN RangeBranch(float(replace(result, ",", ".")).val, criteria)
    ELSE ToleranceBranch(float(replace(result, ",", ".")).val, criteria)

\* lines 276-301: the body of the try statement
TryBody(result, criteria) ==
    IF ~float(replace(result, ",", ".")).ok THEN Raise("ValueError")
    ELSE IF ToleranceBranch(float(replace(result, ",", ".")).val, criteria) # FallThrough
    THEN ToleranceBranch(float(replace(result, ",", ".")).val, criteria)
    ELSE RangeBranch(float(replace(result, ",", ".")).val, criteria)

\* a handler that catches no exception
CaughtNothing == {}

\* line 303: except (ValueError, AttributeError)
Caught == {"ValueError", "AttributeError"}

\* lines 303-306: a caught exception, or the end of the try body, returns ""
ExceptOrEnd(body) ==
    IF body.kind = "return" THEN body
    ELSE IF body.kind = "fallthrough" THEN Return("", "end")
    ELSE IF body.exc \in Caught THEN Return("", "except")
    ELSE body

\* lines 275-306: the try statement
TryExcept(result, criteria) == ExceptOrEnd(TryBody(result, criteria))

\* items 1 and 6 with the result compared as written, without upper()
LiteralBranchCaseSensitive(result) ==
    IF result = <<"O", "K">> THEN Return(PASS, "literal")
    ELSE IF result = <<"N", "G">> THEN Return(FAIL, "literal")
    ELSE Return("", "literal")

\* lines 266-271: items 1 and 6
LiteralBranch(result) ==
    IF upper(result) = <<"O", "K">> THEN Return(PASS, "literal")
    ELSE IF upper(result) = <<"N", "G">> THEN Return(FAIL, "literal")
    ELSE Return("", "literal")

QualitativeItems == {1, 6}

auto_judge(item_no, result, criteria) ==
    IF result = <<>> THEN Return("", "empty")
    ELSE IF item_no \in QualitativeItems THEN LiteralBranch(strip(result))
    ELSE TryExcept(strip(result), criteria)

(***************************************************************************)
(* The inputs of the judge: texts made of a few tokens.                    *)
(***************************************************************************)

MaxResultLen == 1

MaxCriteriaLen == 4

ResultTokens ==
    { <<" ">>, <<" ", "o", "K">>, <<"N", "g", " ">>, <<"N", "a", "N">>, <<"-">>,
      <<".", "8">>, <<",", "8">>, <<".", "7">>, <<".", "6">> }

CriteriaTokens == { <<".", "7">>, <<".", "1">>, <<PM>>, <<"-", ".", "7">> }

RECURSIVE Texts(_, _)
Texts(tokens, n) ==
    IF n = 0 THEN {<<>>}
    ELSE {t \o k : t \in Texts(tokens, n - 1), k \in tokens \cup {<<>>}}

ItemNumbers == 1..6

Calls ==
    [item_no : ItemNumbers,
     result : Texts(ResultTokens, MaxResultLen),
     criteria : Texts(CriteriaTokens, MaxCriteriaLen)]

VARIABLES
    call,             \* the call of auto_judge: [item_no, result, criteria]
    outcome,          \* Pending, or what the call returned or raised
    template,         \* the template file: TemplateMissing, or its six rows
    result_text,      \* the text inputs result_<no>
    judgment_choice,  \* the select boxes judgment_<no>
    inspector_name,   \* the text input of the inspector's name
    selected,         \* the index of the chosen part option, 0 the placeholder
    page,             \* what the last run of the inspection form rendered
    file,             \* the catalog file: FileMissing, or its list of parts
    parts_data,       \* the catalog the running script loaded
    status,           \* what the last catalog operation reported
    run,              \* with several sessions: the interaction each one is serving
    uploaded_file,    \* the rows of the data frame read from the uploaded file
    pc,               \* where the call of parse_csv_file is
    idx,              \* the number of rows the loop has processed
    current_product_name, \* the last category marker seen, or None
    parts_list        \* the drafts collected so far

judgeVars == <<call, outcome>>

formVars == <<template, result_text, judgment_choice, inspector_name, selected, page>>

catalogVars == <<file, parts_data, status, run>>

csvVars == <<uploaded_file, pc, idx, current_product_name, parts_list>>

vars == <<judgeVars, formVars, catalogVars, csvVars>>

Pending == [kind |-> "pending"]

Idle == "idle"

JudgeIdle == call = Idle /\ outcome = Idle

FormIdle ==
    /\ template = Idle
    /\ result_text = Idle
    /\ judgment_choice = Idle
    /\ inspector_name = Idle
    /\ selected = Idle
    /\ page = Idle

CatalogIdle == file = [idle |-> TRUE] /\ status = [idle |-> TRUE] /\ run = Idle

CsvIdle ==
    /\ uploaded_file = Idle
    /\ pc = Idle
    /\ idx = Idle
    /\ current_product_name = Idle
    /\ parts_list = Idle

InitJudge ==
    /\ call \in Calls
    /\ outcome = Pending
    /\ FormIdle
    /\ CatalogIdle
    /\ parts_data = Idle
    /\ CsvIdle

Judge ==
    /\ outcome = Pending
    /\ outcome' = auto_judge(call.item_no, call.result, call.criteria)
    /\ UNCHANGED <<call, formVars, catalogVars, csvVars>>

NextJudge == Judge

SpecJudge == InitJudge /\ [][NextJudge]_vars

(***************************************************************************)
(* The inspection form.  Texts written in Japanese in the source are       *)
(* spelled in ASCII here; a text the program takes apart (a criteria, a    *)
(* part id, a part name) is a sequence of characters, any other a string.  *)
(***************************************************************************)

\* no template file; a file that exists is read as its rows 6 to 11
TemplateMissing == <<>>

\* lines 109-116: the built-in checklist
DefaultItems ==
    << [no |-> 1, item |-> "appearance",
        criteria |-> <<"n", "o", " ", "f", "l", "a", "w">>],
       [no |-> 2, item |-> "length",
        criteria |-> <<"1", "0", "0", PM, "0", ".", "5", "m", "m">>],
       [no |-> 3, item |-> "width",
        criteria |-> <<"5", "0", PM, "0", ".", "3", "m", "m">>],
       [no |-> 4, item |-> "thickness",
        criteria |-> <<"1", "0", PM, "0", ".", "1", "m", "m">>],
       [no |-> 5, item |-> "hardness",
        criteria |-> <<"H", "R", "C", " ", "5", "8", "-", "6", "2">>],
       [no |-> 6, item |-> "operation",
        criteria |-> <<"s", "m", "o", "o", "t", "h">>] >>

\* a cell of the template left blank reads as None: 0 stands for it in the
\* no column, "" in the item column and <<>> in the criteria column
BlankRow == [no |-> 0, item |-> "", criteria |-> <<>>]

\* a template file someone edited: rows 1 and 5 filled in (row 5 without a
\* criteria), row 3 without an item name, the other rows blank
PartialTemplate ==
    << DefaultItems[1], BlankRow, [DefaultItems[3] EXCEPT !.item = ""],
       BlankRow, [DefaultItems[5] EXCEPT !.criteria = <<>>], BlankRow >>

BlankTemplate == [r \in 1..6 |-> BlankRow]

TemplateFiles == {TemplateMissing, PartialTemplate, BlankTemplate}

RECURSIVE FilledRows(_)
FilledRows(rows) ==
    IF rows = <<>> THEN <<>>
    ELSE IF Head(rows).no # 0 /\ Head(rows).item # ""
    THEN <<Head(rows)>> \o FilledRows(Tail(rows))
    ELSE FilledRows(Tail(rows))

\* lines 105-129 without the built-in checklist
load_inspection_template_no_default(template_file) == FilledRows(template_file)

load_inspection_template(template_file) ==
    IF template_file = TemplateMissing THEN DefaultItems
    ELSE FilledRows(template_file)

\* the texts typed into the result input of item no
FormTexts(no) ==
    IF no \in QualitativeItems THEN {<<>>, <<"O", "K">>, <<"n", "g">>}
    ELSE IF no = 2 THEN {<<>>, <<"1", "0", "0", ".", "5">>, <<"1", "0", "0", ".", "6">>}
    ELSE IF no = 3 THEN {<<>>, <<"5", "0", ",", "3">>, <<"4", "9">>}
    ELSE IF no = 4 THEN {<<>>, <<"1", "0">>, <<"9", ".", "8">>}
    ELSE {<<>>, <<"5", "8">>, <<"6", "3">>}

\* the items of every template of the model
AllItems ==
    UNION {{load_inspection_template(t)[i] : i \in 1..Len(load_inspection_template(t))} :
              t \in TemplateFiles}

\* auto_judge on every item and every text that can be typed for it
AutoJudgments ==
    [item \in AllItems |->
        [text \in FormTexts(item.no) |->
            auto_judge(item.no, text, item.criteria).value]]

Placeholder == <<"choose">>

Separator == <<" ", "-", " ">>

\* line 1010-1012: the options of the part select box
part_options(parts) ==
    <<Placeholder>> \o [i \in 1..Len(parts) |-> parts[i].id \o Separator \o parts[i].name]

\* option.split(" - ")[0]
SplitFirst(option) ==
    IF \E i \in 1..(Len(option) - 2) : SubSeq(option, i, i + 2) = Separator
    THEN SubSeq(option, 1,
                Least({i \in 1..(Len(option) - 2) :
                          SubSeq(option, i, i + 2) = Separator}) - 1)
    ELSE option

NoPart == [none |-> TRUE]

\* next((p for p in parts_data if p["id"] == part_id), None)
FindPart(parts, part_id) ==
    IF \E i \in 1..Len(parts) : parts[i].id = part_id
    THEN parts[Least({i \in 1..Len(parts) : parts[i].id = part_id})]
    ELSE NoPart

\* lines 1178-1184
selected_part_data(parts, option) ==
    IF option # Placeholder THEN FindPart(parts, SplitFirst(option)) ELSE NoPart

\* line 1114, for the result text typed into the item's input
auto_judgment(item, results) == AutoJudgments[item][results[item.no]]

\* lines 1117-1130: the automatic judgment, or else the choice of the select box
AutoOrChoice(auto, choice) == IF auto # "" THEN auto ELSE choice

\* lines 1114-1130
judgment(item, results, choices) ==
    AutoOrChoice(auto_judgment(item, results), choices[item.no])

\* lines 1139-1146 (the note column left out)
ResultRows(items, results, choices) ==
    [i \in 1..Len(items) |->
        [no |-> items[i].no, item |-> items[i].item,
         criteria |-> items[i].criteria, result |-> results[items[i].no],
         judgment |-> judgment(items[i], results, choices)]]

RECURSIVE NonEmpty(_)
NonEmpty(rows) ==
    IF rows = <<>> THEN <<>>
    ELSE IF Head(rows).judgment # "" THEN <<Head(rows).judgment>> \o NonEmpty(Tail(rows))
    ELSE NonEmpty(Tail(rows))

\* lines 1148-1149
all_judgments(rows) == NonEmpty(rows)

\* the items counted as judged as soon as one of them is
some_item_judged(rows) == Len(all_judgments(rows)) > 0

\* line 1157
all_items_judged(rows) == Len(all_judgments(rows)) = Len(rows)

InSeq(x, seq) == \E i \in 1..Len(seq) : seq[i] = x

\* the aggregate with a failed item deciding at once
overall_judgment_eager(rows) ==
    IF InSeq(FAIL, all_judgments(rows)) THEN FAIL
    ELSE IF all_items_judged(rows) THEN PASS
    ELSE ""

\* lines 1159-1173
overall_judgment(rows) ==
    IF all_items_judged(rows)
    THEN IF InSeq(FAIL, all_judgments(rows)) THEN FAIL ELSE PASS
    ELSE ""

\* line 1187
has_failure(rows) == InSeq(FAIL, all_judgments(rows))

\* the gate without the inspector's name
button_disabled_nameless(rows, name, option) ==
    ~ (/\ all_items_judged(rows)
       /\ overall_judgment(rows) = PASS
       /\ option # Placeholder)

\* lines 1188-1193
button_disabled(rows, name, option) ==
    ~ (/\ all_items_judged(rows)
       /\ overall_judgment(rows) = PASS
       /\ name # ""
       /\ option # Placeholder)

\* lines 1195-1204
message(rows, name, option) ==
    IF has_failure(rows) THEN "cannot export"
    ELSE IF button_disabled(rows, name, option) THEN "fill in"
    ELSE "none"

\* lines 1211-1232: what a press of the export button produces
export(parts, rows, name, option) ==
    IF selected_part_data(parts, option) = NoPart
    THEN [kind |-> "raise", exc |-> "TypeError"]
    ELSE [kind |-> "download",
          part_id |-> selected_part_data(parts, option).id,
          inspection_data |-> [inspector |-> name, items |-> rows,
                               overall_judgment |-> overall_judgment(rows)]]

NoExport == [kind |-> "none"]

\* lines 1153-1237: the page below the result rows
Rendered(parts, rows, name, option, pressed) ==
    [results |-> rows,
     overall_judgment |-> overall_judgment(rows),
     button_disabled |-> button_disabled(rows, name, option),
     message |-> message(rows, name, option),
     export |-> IF pressed THEN export(parts, rows, name, option) ELSE NoExport]

\* lines 994-1237: one run of the page; pressed tells whether the run was
\* started by a press of the export button
show_inspection_form_page(parts, template_file, results, choices, name, sel, pressed) ==
    Rendered(parts,
             ResultRows(load_inspection_template(template_file), results, choices),
             name, part_options(parts)[sel + 1], pressed)

\* a select box the run did not render loses its choice
KeptChoices(template_file, results, choices) ==
    [no \in DOMAIN choices |->
        IF \E i \in 1..Len(load_inspection_template(template_file)) :
              /\ load_inspection_template(template_file)[i].no = no
              /\ auto_judgment(load_inspection_template(template_file)[i], results) = ""
        THEN choices[no] ELSE ""]

FormPart(id, name) == [id |-> id, name |-> name]

\* the catalog the form runs with; the second and the third id hold the
\* separator, the second after the id of the first part
FormCatalog ==
    << FormPart(<<"A">>, <<"n">>),
       FormPart(<<"A", " ", "-", " ", "B">>, <<"m">>),
       FormPart(<<"B", " ", "-", " ", "C">>, <<"k">>) >>

InspectorNames == {"", "Yamada"}

JudgmentOptions == {"", PASS, FAIL}

ItemNos(template_file) ==
    {load_inspection_template(template_file)[i].no :
        i \in 1..Len(load_inspection_template(template_file))}

InitForm ==
    /\ template \in TemplateFiles
    /\ result_text = [no \in ItemNumbers |-> <<>>]
    /\ judgment_choice = [no \in ItemNumbers |-> ""]
    /\ inspector_name = ""
    /\ selected = 0
    /\ parts_data = FormCatalog
    /\ page = show_inspection_form_page(parts_data, template, result_text,
                                        judgment_choice, inspector_name, selected, FALSE)
    /\ JudgeIdle
    /\ CatalogIdle
    /\ CsvIdle

\* every interaction reruns the page with the widgets' new state
Rerun(pressed) ==
    /\ page' = show_inspection_form_page(parts_data, template, result_text',
                                         judgment_choice', inspector_name',
                                         selected', pressed)
    /\ UNCHANGED <<template, parts_data, judgeVars, catalogVars, csvVars>>

EnterResult(no, text) ==
    /\ no \in ItemNos(template)
    /\ text # result_text[no]
    /\ result_text' = [result_text EXCEPT ![no] = text]
    /\ judgment_choice' = KeptChoices(template, result_text', judgment_choice)
    /\ UNCHANGED <<inspector_name, selected>>
    /\ Rerun(FALSE)

ChooseJudgment(no, choice) ==
    /\ \E i \in 1..Len(load_inspection_template(template)) :
          /\ load_inspection_template(template)[i].no = no
          /\ auto_judgment(load_inspection_template(template)[i], result_text) = ""
    /\ choice # judgment_choice[no]
    /\ judgment_choice' = [judgment_choice EXCEPT ![no] = choice]
    /\ UNCHANGED <<result_text, inspector_name, selected>>
    /\ Rerun(FALSE)

EnterInspector(name) ==
    /\ name # inspector_name
    /\ inspector_name' = name
    /\ UNCHANGED <<result_text, judgment_choice, selected>>
    /\ Rerun(FALSE)

SelectPart(sel) ==
    /\ sel # selected
    /\ selected' = sel
    /\ UNCHANGED <<result_text, judgment_choice, inspector_name>>
    /\ Rerun(FALSE)

PressExport ==
    /\ ~page.button_disabled
    /\ UNCHANGED <<result_text, judgment_choice, inspector_name, selected>>
    /\ Rerun(TRUE)

NextForm ==
    \/ \E no \in ItemNumbers : \E text \in FormTexts(no) : EnterResult(no, text)
    \/ \E no \in ItemNumbers : \E choice \in JudgmentOptions : ChooseJudgment(no, choice)
    \/ \E name \in InspectorNames : EnterInspector(name)
    \/ \E sel \in 0..Len(FormCatalog) : SelectPart(sel)
    \/ PressExport

SpecForm == InitForm /\ [][NextForm]_vars

(***************************************************************************)
(* The catalog: the file of parts and the operations that write it.        *)
(***************************************************************************)

FileMissing == [exists |-> FALSE]

FileOf(parts) == [exists |-> TRUE, parts |-> parts]

\* lines 24-31
load_parts_data(json_file) ==
    IF ~json_file.exists THEN <<>> ELSE json_file.parts

\* lines 34-37
save_parts_data(parts) == FileOf(parts)

NoImage == "None"

\* lines 40-58: the new part appended to the catalog read again from the file
save_part(json_file, part_data, image_file) ==
    save_parts_data(
        Append(load_parts_data(json_file),
               IF image_file # NoImage
               THEN part_data @@ [image_file |-> <<part_data.id, image_file>>]
               ELSE part_data @@ [image_file |-> NoImage]))

HasId(parts, id) == \E i \in 1..Len(parts) : parts[i].id = id

IndexOf(parts, id) == Least({i \in 1..Len(parts) : parts[i].id = id})

\* lines 87-88 with the reference of the record being replaced forgotten
OldImageForgotten(part) == NoImage

\* line 82-85: part.get("image_file") of the record being replaced
OldImage(part) ==
    IF "image_file" \in DOMAIN part THEN part.image_file ELSE NoImage

\* lines 61-93 with every record of the id replaced
update_part_every(json_file, part_id, updated_data, image_file) ==
    IF ~HasId(load_parts_data(json_file), part_id)
    THEN [ok |-> FALSE, file |-> json_file]
    ELSE [ok |-> TRUE,
          file |-> save_parts_data(
              [i \in 1..Len(load_parts_data(json_file)) |->
                  IF load_parts_data(json_file)[i].id # part_id
                  THEN load_parts_data(json_file)[i]
                  ELSE IF image_file # NoImage
                  THEN updated_data @@ [image_file |-> <<updated_data.id, image_file>>]
                  ELSE updated_data @@
                       [image_file |-> OldImage(load_parts_data(json_file)[i])]])]

\* lines 90-91 with the submitted data merged into the record being replaced
update_part_merging(json_file, part_id, updated_data, image_file) ==
    IF ~HasId(load_parts_data(json_file), part_id)
    THEN [ok |-> FALSE, file |-> json_file]
    ELSE [ok |-> TRUE,
          file |-> save_parts_data(
              [load_parts_data(json_file)
                  EXCEPT ![IndexOf(load_parts_data(json_file), part_id)] =
                      (IF image_file # NoImage
                       THEN updated_data @@ [image_file |-> <<updated_data.id, image_file>>]
                       ELSE updated_data @@
                            [image_file |->
                                OldImage(load_parts_data(json_file)[
                                    IndexOf(load_parts_data(json_file), part_id)])])
                      @@ load_parts_data(json_file)[
                             IndexOf(load_parts_data(json_file), part_id)]])]

\* lines 61-93: [ok, file]; the file is written only when the id is found
update_part(json_file, part_id, updated_data, image_file) ==
    IF ~HasId(load_parts_data(json_file), part_id)
    THEN [ok |-> FALSE, file |-> json_file]
    ELSE [ok |-> TRUE,
          file |-> save_parts_data(
              [load_parts_data(json_file)
                  EXCEPT ![IndexOf(load_parts_data(json_file), part_id)] =
                      IF image_file # NoImage
                      THEN updated_data @@ [image_file |-> <<updated_data.id, image_file>>]
                      ELSE updated_data @@
                           [image_file |->
                               OldImage(load_parts_data(json_file)[
                                   IndexOf(load_parts_data(json_file), part_id)])]])]

RECURSIVE Filter(_, _, _)
\* the parts whose id is (keep = TRUE) or is not (keep = FALSE) among ids
Filter(parts, ids, keep) ==
    IF parts = <<>> THEN <<>>
    ELSE IF (Head(parts).id \in ids) = keep
    THEN <<Head(parts)>> \o Filter(Tail(parts), ids, keep)
    ELSE Filter(Tail(parts), ids, keep)

IdsOf(parts) == {parts[i].id : i \in 1..Len(parts)}

\* lines 208-222 with the ids compared without regard to case
check_duplicates_caseless(parts_to_import, existing_parts) ==
    [unique_parts |->
         Filter(parts_to_import,
                {id \in IdsOf(parts_to_import) :
                    upper(id) \in {upper(e) : e \in IdsOf(existing_parts)}}, FALSE),
     duplicates |->
         Filter(parts_to_import,
                {id \in IdsOf(parts_to_import) :
                    upper(id) \in {upper(e) : e \in IdsOf(existing_parts)}}, TRUE)]

\* lines 208-222
check_duplicates(parts_to_import, existing_parts) ==
    [unique_parts |-> Filter(parts_to_import, IdsOf(existing_parts), FALSE),
     duplicates |-> Filter(parts_to_import, IdsOf(existing_parts), TRUE)]

\* existing_dict[part["id"]] = part, the dict kept as its list of values
DictSet(values, part) ==
    IF HasId(values, part.id)
    THEN [values EXCEPT ![IndexOf(values, part.id)] = part]
    ELSE Append(values, part)

RECURSIVE DictSetAll(_, _)
DictSetAll(values, parts) ==
    IF parts = <<>> THEN values
    ELSE DictSetAll(DictSet(values, Head(parts)), Tail(parts))

\* lines 249-255 with the duplicates appended too
MergedWithDuplicates(existing_parts, checked, overwrite_duplicates) ==
    [result_parts |-> existing_parts \o checked.unique_parts \o checked.duplicates,
     success_count |-> Len(checked.unique_parts),
     skip_count |-> Len(checked.duplicates),
     error_count |-> 0,
     duplicates |-> checked.duplicates]

\* lines 235-244 with the overwritten records left out of the success count
MergedCountingAdded(existing_parts, checked, overwrite_duplicates) ==
    IF overwrite_duplicates
    THEN [result_parts |->
             DictSetAll(DictSetAll(DictSetAll(<<>>, existing_parts), checked.duplicates),
                        checked.unique_parts),
          success_count |-> Len(checked.unique_parts),
          skip_count |-> 0,
          error_count |-> 0,
          duplicates |-> checked.duplicates]
    ELSE [result_parts |-> existing_parts \o checked.unique_parts,
          success_count |-> Len(checked.unique_parts),
          skip_count |-> Len(checked.duplicates),
          error_count |-> 0,
          duplicates |-> checked.duplicates]

\* lines 234-236 and 254-255, with the two lists of check_duplicates
Merged(existing_parts, checked, overwrite_duplicates) ==
    IF overwrite_duplicates
    THEN [result_parts |->
             DictSetAll(DictSetAll(DictSetAll(<<>>, existing_parts), checked.duplicates),
                        checked.unique_parts),
          success_count |-> Len(checked.duplicates) + Len(checked.unique_parts),
          skip_count |-> 0,
          error_count |-> 0,
          duplicates |-> checked.duplicates]
    ELSE [result_parts |-> existing_parts \o checked.unique_parts,
          success_count |-> Len(checked.unique_parts),
          skip_count |-> Len(checked.duplicates),
          error_count |-> 0,
          duplicates |-> checked.duplicates]

\* lines 225-255
import_parts_from_csv(parts_to_import, existing_parts, overwrite_duplicates) ==
    Merged(existing_parts, check_duplicates(parts_to_import, existing_parts),
           overwrite_duplicates)

\* a line of a text area, stripped
StripLine(line) == IF line = " " THEN "" ELSE line

RECURSIVE StrippedLines(_)
\* [item.strip() for item in text.split("\n") if item.strip()]
StrippedLines(lines) ==
    IF lines = <<>> THEN <<>>
    ELSE IF StripLine(Head(lines)) # ""
    THEN <<StripLine(Head(lines))>> \o StrippedLines(Tail(lines))
    ELSE StrippedLines(Tail(lines))

\* lines 830-851: the record built from the registration form
new_part(form) ==
    [id |-> form.new_id,
     name |-> form.new_name,
     category |-> form.new_category,
     inspection_items |-> StrippedLines(form.new_inspection),
     cautions |-> IF StrippedLines(form.new_cautions) # <<>>
                  THEN StrippedLines(form.new_cautions) ELSE <<"none in particular">>,
     storage |-> form.new_storage,
     image_description |-> "inspection point",
     required_products |-> <<>>]

\* lines 1369-1390 with the id taken from the name field
updated_part_renamed(edit_id, form) ==
    [id |-> form.edit_name,
     name |-> form.edit_name,
     category |-> form.edit_category,
     inspection_items |-> StrippedLines(form.edit_inspection),
     cautions |-> IF StrippedLines(form.edit_cautions) # <<>>
                  THEN StrippedLines(form.edit_cautions) ELSE <<"none in particular">>,
     storage |-> form.edit_storage,
     image_description |-> "inspection point",
     required_products |-> <<>>]

\* lines 1369-1390: the record built from the edit form
updated_part(edit_id, form) ==
    [id |-> edit_id,
     name |-> form.edit_name,
     category |-> form.edit_category,
     inspection_items |-> StrippedLines(form.edit_inspection),
     cautions |-> IF StrippedLines(form.edit_cautions) # <<>>
                  THEN StrippedLines(form.edit_cautions) ELSE <<"none in particular">>,
     storage |-> form.edit_storage,
     image_description |-> "inspection point",
     required_products |-> <<>>]

\* lines 182-193: a draft as parse_csv_file builds it
Draft(id, name, item_type, required_products) ==
    [id |-> id,
     name |-> name,
     category |-> "unset",
     item_type |-> item_type,
     inspection_items |-> <<"unset">>,
     cautions |-> <<"unset">>,
     storage |-> "unset",
     image_description |-> "inspection point",
     image_file |-> NoImage,
     required_products |-> required_products]

MaxParts == 2

MaxDrafts == 2

PartIds == {<<"A">>, <<"B">>}

RegistrationForms ==
    [new_id : PartIds \cup {<<>>},
     new_name : {<<>>, <<"n">>},
     new_category : {"", "cat"},
     new_storage : {"shelf"},
     new_inspection : {<<>>, <<" ">>, <<"check", " ">>},
     new_cautions : {<<>>},
     uploaded_image : {NoImage, ".png"}]

EditForms ==
    [edit_name : {<<>>, <<"e">>},
     edit_category : {"cat"},
     edit_storage : {"", "shelf"},
     edit_inspection : {<<" ">>, <<"check">>},
     edit_cautions : {<<"care">>},
     uploaded_image : {NoImage, ".jpg"}]

\* two drafts of one drawing number and a draft of another, which differs
\* from it in case only
Drafts ==
    {Draft(<<"A">>, <<"n">>, <<"2">>, <<>>),
     Draft(<<"A">>, <<"m">>, <<"2">>, <<>>),
     Draft(<<"a">>, <<"n">>, <<"2">>, <<>>)}

RECURSIVE Lists(_, _)
Lists(S, n) ==
    IF n = 0 THEN {<<>>}
    ELSE Lists(S, n - 1) \cup {Append(l, x) : l \in Lists(S, n - 1), x \in S}

DraftLists == Lists(Drafts, MaxDrafts) \ {<<>>}

Init ==
    /\ file = FileMissing
    /\ parts_data = load_parts_data(file)
    /\ status = [op |-> "start"]
    /\ run = Idle
    /\ JudgeIdle
    /\ FormIdle
    /\ CsvIdle

\* lines 807-856 with the check of line 811 left out
RegisterUnchecked(form) ==
    /\ Len(load_parts_data(file)) < MaxParts
    /\ parts_data' = load_parts_data(file)
    /\ IF form.new_id = <<>> \/ form.new_name = <<>>
          \/ form.new_category = "" \/ form.new_storage = ""
       THEN /\ status' = [op |-> "register", error |-> "required"]
            /\ UNCHANGED file
       ELSE IF StrippedLines(form.new_inspection) = <<>>
       THEN /\ status' = [op |-> "register", error |-> "inspection"]
            /\ UNCHANGED file
       ELSE /\ file' = save_part(file, new_part(form), form.uploaded_image)
            /\ status' = [op |-> "register", error |-> "none"]
    /\ UNCHANGED <<run, judgeVars, formVars, csvVars>>

\* lines 403 and 807-856: a run started by the submit button of the
\* registration form
Register(form) ==
    /\ Len(load_parts_data(file)) < MaxParts
    /\ parts_data' = load_parts_data(file)
    /\ IF form.new_id = <<>> \/ form.new_name = <<>>
          \/ form.new_category = "" \/ form.new_storage = ""
       THEN /\ status' = [op |-> "register", error |-> "required"]
            /\ UNCHANGED file
       ELSE IF HasId(parts_data', form.new_id)
       THEN /\ status' = [op |-> "register", error |-> "exists"]
            /\ UNCHANGED file
       ELSE IF StrippedLines(form.new_inspection) = <<>>
       THEN /\ status' = [op |-> "register", error |-> "inspection"]
            /\ UNCHANGED file
       ELSE /\ file' = save_part(file, new_part(form), form.uploaded_image)
            /\ status' = [op |-> "register", error |-> "none"]
    /\ UNCHANGED <<run, judgeVars, formVars, csvVars>>

\* lines 403, 1240-1250 and 1343-1402: a run started by the update button of
\* the edit form of the part part_id
Edit(part_id, form) ==
    /\ parts_data' = load_parts_data(file)
    /\ HasId(parts_data', part_id)
    /\ IF form.edit_name = <<>> \/ form.edit_category = "" \/ form.edit_storage = ""
       THEN /\ status' = [op |-> "edit", part_id |-> part_id,
                            uploaded_image |-> form.uploaded_image,
                            error |-> "required"]
            /\ UNCHANGED file
       ELSE IF StrippedLines(form.edit_inspection) = <<>>
       THEN /\ status' = [op |-> "edit", part_id |-> part_id,
                            uploaded_image |-> form.uploaded_image,
                            error |-> "inspection"]
            /\ UNCHANGED file
       ELSE /\ file' = update_part(file, part_id,
                                   updated_part(FindPart(parts_data', part_id).id, form),
                                   form.uploaded_image).file
            /\ status' = [op |-> "edit", part_id |-> part_id,
                            uploaded_image |-> form.uploaded_image,
                            error |-> "none"]
    /\ UNCHANGED <<run, judgeVars, formVars, csvVars>>

\* lines 403 and 936-959: a run started by the import button, and the run
\* that st.rerun() starts after it; the status keeps the draft list of the
\* uploaded file (line 889), the check box (lines 928-932), whether both
\* are those of the run before, and csv_import_result (lines 950-955)
Import(parsed_parts, overwrite) ==
    \E imported \in {import_parts_from_csv(parsed_parts, load_parts_data(file),
                                           overwrite)} :
        /\ Len(imported.result_parts) <= MaxParts
        /\ file' = save_parts_data(imported.result_parts)
        /\ status' = [op |-> "import",
                      parsed_parts |-> parsed_parts,
                      overwrite |-> overwrite,
                      repeated |-> IF status.op = "import"
                                   THEN status.parsed_parts = parsed_parts
                                        /\ status.overwrite = overwrite
                                   ELSE FALSE,
                      success |-> imported.success_count,
                      skip |-> imported.skip_count,
                      error |-> imported.error_count]
        /\ parts_data' = load_parts_data(file')
        /\ UNCHANGED <<run, judgeVars, formVars, csvVars>>

Next ==
    \/ \E form \in RegistrationForms : Register(form)
    \/ \E part_id \in PartIds : \E form \in EditForms : Edit(part_id, form)
    \/ \E parsed_parts \in DraftLists : \E overwrite \in BOOLEAN :
          Import(parsed_parts, overwrite)

Spec == Init /\ [][Next]_vars

(***************************************************************************)
(* parse_csv_file, lines 147-205, one loop iteration at a time.  The data  *)
(* frame is the list of its rows, a row the list of its cells iloc[0],     *)
(* iloc[1], ...; a cell is NA (what pd.notna rejects) or a value with the  *)
(* text str() gives for it.  The marker of line 138 is spelled [R].        *)
(***************************************************************************)

NA == [notna |-> FALSE]

Cell(text) == [notna |-> TRUE, str |-> text]

RevisionMarker == <<"[", "R", "]">>

RECURSIVE replace_text(_, _)
\* s.replace(old, ""): every occurrence, left to right, in one pass
replace_text(s, old) ==
    IF Len(s) < Len(old) THEN s
    ELSE IF SubSeq(s, 1, Len(old)) = old
    THEN replace_text(SubSeq(s, Len(old) + 1, Len(s)), old)
    ELSE <<Head(s)>> \o replace_text(Tail(s), old)

RECURSIVE split_first(_, _)
\* s.split(c)[0]
split_first(s, c) ==
    IF s = <<>> \/ Head(s) = c THEN <<>>
    ELSE <<Head(s)>> \o split_first(Tail(s), c)

\* lines 138 and 180
clean_number_leading(drawing_number) ==
    strip(IF Len(strip(drawing_number)) >= Len(RevisionMarker)
             /\ SubSeq(strip(drawing_number), 1, Len(RevisionMarker)) = RevisionMarker
          THEN SubSeq(strip(drawing_number), Len(RevisionMarker) + 1,
                      Len(strip(drawing_number)))
          ELSE drawing_number)

\* lines 138 and 180
clean_number(drawing_number) == strip(replace_text(drawing_number, RevisionMarker))

\* lines 132-144
extract_product_unsplit(drawing_number) == clean_number(drawing_number)

\* lines 132-144
extract_product_from_drawing_number(drawing_number) ==
    IF Contains(clean_number(drawing_number), "-")
    THEN split_first(clean_number(drawing_number), "-")
    ELSE clean_number(drawing_number)

\* lines 164-166: str(cell).strip() if pd.notna(cell) else ""
cell_text(cell) == IF cell.notna THEN strip(cell.str) ELSE <<>>

nan == <<"n", "a", "n">>

\* line 170
is_category_row(item_type, drawing_number, part_name) ==
    /\ item_type # <<>>
    /\ drawing_number = <<>> \/ drawing_number = nan
    /\ part_name = <<>> \/ part_name = nan

\* line 175
is_part_row(item_type, drawing_number, part_name) ==
    /\ item_type # <<>> /\ drawing_number # <<>> /\ part_name # <<>>
    /\ drawing_number # nan /\ part_name # nan

\* lines 192-201
required_products(product_id, product_name) ==
    IF product_id # <<>> /\ product_name # None
    THEN <<[product_id |-> product_id, product_name |-> product_name, notes |-> ""]>>
    ELSE <<>>

\* lines 177-203: the draft of a part row
part_data(item_type, drawing_number, part_name, product_name) ==
    Draft(clean_number(drawing_number), part_name, item_type,
          required_products(extract_product_from_drawing_number(drawing_number),
                            product_name))

MaxRows == 3

\* the rows of a frame of four columns
Rows ==
    {<<NA, item, drawing, name>> :
        item \in {NA, Cell(<<"P">>), Cell(<<"Q">>)},
        drawing \in {NA, Cell(<<"D", "-", "1">>)},
        name \in {NA, Cell(<<"n">>)}}
    \cup {<<NA, Cell(<<"P">>), Cell(text), Cell(<<"n">>)>> :
            text \in { <<"[", "R", "]", " ", "D", "-", "1">>,
                       <<"E", "[", "R", "]", " ">>,
                       <<"-", "F">>,
                       <<"[", "R", "]", " ">>,
                       <<" ", "n", "a", "n">> }}
    \cup {<<NA, Cell(<<" ">>), NA, NA>>,
          <<NA, Cell(<<"P">>), Cell(<<"G">>), Cell(<<"n", "a", "n", " ">>)>>}

\* the rows of spec.md, section 8: item type, drawing number and part name
\* in iloc[1], iloc[2], iloc[3]
ExampleFile ==
    << <<NA, Cell(<<"P", "1">>), NA, NA>>,
       <<NA, Cell(<<"2">>), Cell(<<"D", "1", "-", "0", "1">>), Cell(<<"P", "a", "r", "t", "A">>)>>,
       <<NA, Cell(<<"2">>), Cell(<<"D", "2", "-", "0", "2">>), Cell(<<"P", "a", "r", "t", "B">>)>>,
       <<NA, Cell(<<"P", "2">>), NA, NA>>,
       <<NA, Cell(<<"2">>), Cell(<<"D", "3", "-", "0", "3">>), Cell(<<"P", "a", "r", "t", "C">>)>> >>

\* frames of four columns, frames of three columns (iloc[3] does not exist)
\* and the example
UploadedFiles ==
    Lists(Rows, MaxRows) \cup Lists({<<NA, Cell(<<"P">>), NA>>}, MaxRows)
        \cup {ExampleFile}

\* lines 156-160
InitParse ==
    /\ uploaded_file \in UploadedFiles
    /\ pc = "loop"
    /\ idx = 0
    /\ current_product_name = None
    /\ parts_list = <<>>
    /\ JudgeIdle
    /\ FormIdle
    /\ CatalogIdle
    /\ parts_data = Idle

\* lines 164-203 with a category kept once it is set
loop_body_first_marker(item_type, drawing_number, part_name, product_name, parts) ==
    IF is_category_row(item_type, drawing_number, part_name)
    THEN [current_product_name |-> IF product_name = None THEN item_type ELSE product_name,
          parts_list |-> parts]
    ELSE IF is_part_row(item_type, drawing_number, part_name)
    THEN [current_product_name |-> product_name,
          parts_list |-> Append(parts, part_data(item_type, drawing_number,
                                                 part_name, product_name))]
    ELSE [current_product_name |-> product_name, parts_list |-> parts]

\* lines 164-203 with the category forgotten at a row of neither shape
loop_body_forgetful(item_type, drawing_number, part_name, product_name, parts) ==
    IF is_category_row(item_type, drawing_number, part_name)
    THEN [current_product_name |-> item_type, parts_list |-> parts]
    ELSE IF is_part_row(item_type, drawing_number, part_name)
    THEN [current_product_name |-> product_name,
          parts_list |-> Append(parts, part_data(item_type, drawing_number,
                                                 part_name, product_name))]
    ELSE [current_product_name |-> None, parts_list |-> parts]

\* lines 164-203 for the values of a row: [current_product_name, parts_list]
loop_body(item_type, drawing_number, part_name, product_name, parts) ==
    IF is_category_row(item_type, drawing_number, part_name)
    THEN [current_product_name |-> item_type, parts_list |-> parts]
    ELSE IF is_part_row(item_type, drawing_number, part_name)
    THEN [current_product_name |-> product_name,
          parts_list |-> Append(parts, part_data(item_type, drawing_number,
                                                 part_name, product_name))]
    ELSE [current_product_name |-> product_name, parts_list |-> parts]

\* lines 162-203: one iteration of for idx, row in df.iterrows(); row.iloc[3]
\* raises IndexError in a frame of fewer than four columns
Iterate ==
    /\ pc = "loop"
    /\ idx < Len(uploaded_file)
    /\ IF Len(uploaded_file[idx + 1]) < 4
       THEN /\ pc' = "IndexError"
            /\ UNCHANGED <<idx, current_product_name, parts_list>>
       ELSE /\ pc' = pc
            /\ idx' = idx + 1
            /\ current_product_name' =
                   loop_body(cell_text(uploaded_file[idx'][2]),
                             cell_text(uploaded_file[idx'][3]),
                             cell_text(uploaded_file[idx'][4]),
                             current_product_name, parts_list).current_product_name
            /\ parts_list' =
                   loop_body(cell_text(uploaded_file[idx'][2]),
                             cell_text(uploaded_file[idx'][3]),
                             cell_text(uploaded_file[idx'][4]),
                             current_product_name, parts_list).parts_list
    /\ UNCHANGED <<uploaded_file, judgeVars, formVars, catalogVars>>

\* line 205: return parts_list
ReturnParts ==
    /\ pc = "loop"
    /\ idx = Len(uploaded_file)
    /\ pc' = "return"
    /\ UNCHANGED <<uploaded_file, idx, current_product_name, parts_list,
                   judgeVars, formVars, catalogVars>>

NextParse == Iterate \/ ReturnParts

SpecParse == InitParse /\ [][NextParse]_vars

(***************************************************************************)
(* Two sessions on one catalog file.  Every interaction of a session       *)
(* starts a run of the script: the run loads the catalog (line 403) and    *)
(* then serves the interaction; the runs of the two sessions interleave    *)
(* between the two.  parts_data, status and run hold a value per session.  *)
(***************************************************************************)

Sessions == {"s1", "s2"}

NoRun == [op |-> "none"]

\* the registration forms the sessions submit: complete, ids A and B
SessionForms ==
    {form \in RegistrationForms :
        /\ form.new_id # <<>>
        /\ form.new_name = <<"n">>
        /\ form.new_category = "cat"
        /\ form.new_inspection = <<"check", " ">>
        /\ form.uploaded_image = NoImage}

\* the interactions: the submit button of the registration form, and the
\* import button under an uploaded file of one draft and the check box
Requests ==
    [op : {"register"}, form : SessionForms]
        \cup [op : {"import"},
              parsed_parts : {<<Draft(<<"A">>, <<"n">>, <<"2">>, <<>>)>>},
              overwrite : BOOLEAN]

InitSessions ==
    /\ file = FileMissing
    /\ parts_data = [s \in Sessions |-> <<>>]
    /\ status = [s \in Sessions |-> [op |-> "start"]]
    /\ run = [s \in Sessions |-> NoRun]
    /\ JudgeIdle
    /\ FormIdle
    /\ CsvIdle

\* line 403: the run that serves request starts and loads the catalog
BeginRun(s, request) ==
    /\ run[s] = NoRun
    /\ run' = [run EXCEPT ![s] = request]
    /\ parts_data' = [parts_data EXCEPT ![s] = load_parts_data(file)]
    /\ UNCHANGED <<file, status, judgeVars, formVars, csvVars>>

\* the run is over: its variables are gone
EndRun(s) ==
    /\ run' = [run EXCEPT ![s] = NoRun]
    /\ parts_data' = [parts_data EXCEPT ![s] = <<>>]
    /\ UNCHANGED <<judgeVars, formVars, csvVars>>

\* lines 807-856 in the run of session s: the id is looked up in the catalog
\* the run loaded, save_part reads the file again
SubmitRegistration(s) ==
    /\ run[s].op = "register"
    /\ IF run[s].form.new_id = <<>> \/ run[s].form.new_name = <<>>
          \/ run[s].form.new_category = "" \/ run[s].form.new_storage = ""
       THEN /\ status' = [status EXCEPT ![s] =
                             [op |-> "register", new_id |-> run[s].form.new_id,
                              error |-> "required"]]
            /\ UNCHANGED file
       ELSE IF HasId(parts_data[s], run[s].form.new_id)
       THEN /\ status' = [status EXCEPT ![s] =
                             [op |-> "register", new_id |-> run[s].form.new_id,
                              error |-> "exists"]]
            /\ UNCHANGED file
       ELSE IF StrippedLines(run[s].form.new_inspection) = <<>>
       THEN /\ status' = [status EXCEPT ![s] =
                             [op |-> "register", new_id |-> run[s].form.new_id,
                              error |-> "inspection"]]
            /\ UNCHANGED file
       ELSE /\ Len(load_parts_data(file)) < MaxParts
            /\ file' = save_part(file, new_part(run[s].form), run[s].form.uploaded_image)
            /\ status' = [status EXCEPT ![s] =
                             [op |-> "register", new_id |-> run[s].form.new_id,
                              error |-> "none"]]
    /\ EndRun(s)

\* lines 942-946 with the catalog read again from the file
import_button_reloading(json_file, snapshot, parsed_parts, overwrite) ==
    import_parts_from_csv(parsed_parts, load_parts_data(json_file), overwrite)

\* lines 942-946: the import is computed from parts_data, the catalog the
\* run loaded, whatever the file json_file holds by now
import_button(json_file, snapshot, parsed_parts, overwrite) ==
    import_parts_from_csv(parsed_parts, snapshot, overwrite)

\* lines 936-957 in the run of session s
SubmitImport(s) ==
    /\ run[s].op = "import"
    /\ \E imported \in {import_button(file, parts_data[s], run[s].parsed_parts,
                                      run[s].overwrite)} :
          /\ Len(imported.result_parts) <= MaxParts
          /\ file' = save_parts_data(imported.result_parts)
          /\ status' = [status EXCEPT ![s] =
                           [op |-> "import",
                            overwrite |-> run[s].overwrite,
                            success |-> imported.success_count,
                            skip |-> imported.skip_count,
                            error |-> imported.error_count]]
    /\ EndRun(s)

NextSessions ==
    \E s \in Sessions :
        \/ \E request \in Requests : BeginRun(s, request)
        \/ SubmitRegistration(s)
        \/ SubmitImport(s)

SpecSessions == InitSessions /\ [][NextSessions]_vars

(***************************************************************************)
(* The start of the script on a catalog file and a template file that may  *)
(* be missing, and the template that create_template.py writes.            *)
(***************************************************************************)

\* create_template.py, lines 52-101
inspection_items ==
    << [no |-> 1, item |-> "appearance",
        criteria |-> <<"n", "o", " ", "f", "l", "a", "w">>,
        result |-> "", judgment |-> "", note |-> ""],
       [no |-> 2, item |-> "length",
        criteria |-> <<"1", "0", "0", PM, "0", ".", "5", "m", "m">>,
        result |-> "", judgment |-> "", note |-> ""],
       [no |-> 3, item |-> "width",
        criteria |-> <<"5", "0", PM, "0", ".", "3", "m", "m">>,
        result |-> "", judgment |-> "", note |-> ""],
       [no |-> 4, item |-> "thickness",
        criteria |-> <<"1", "0", PM, "0", ".", "1", "m", "m">>,
        result |-> "", judgment |-> "", note |-> ""],
       [no |-> 5, item |-> "hardness",
        criteria |-> <<"H", "R", "C", " ", "5", "8", "-", "6", "2">>,
        result |-> "", judgment |-> "", note |-> ""],
       [no |-> 6, item |-> "operation",
        criteria |-> <<"s", "m", "o", "o", "t", "h">>,
        result |-> "", judgment |-> "", note |-> ""] >>

\* create_template.py, lines 103-106: the columns 1 to 3 of the rows 6 to 11
CreatedTemplate ==
    [row \in 1..6 |-> [no |-> inspection_items[row].no,
                       item |-> inspection_items[row].item,
                       criteria |-> inspection_items[row].criteria]]

\* the catalog files: none, or a catalog of imported records
StoredFiles == {FileMissing} \cup {FileOf(parts) : parts \in Lists(Drafts, MaxParts)}

InitStart ==
    /\ file \in StoredFiles
    /\ template \in TemplateFiles \cup {CreatedTemplate}
    /\ status = [op |-> "start"]
    /\ parts_data = Idle
    /\ page = Idle
    /\ result_text = [no \in ItemNumbers |-> <<>>]
    /\ judgment_choice = [no \in ItemNumbers |-> ""]
    /\ inspector_name = ""
    /\ selected = 0
    /\ run = Idle
    /\ JudgeIdle
    /\ CsvIdle

\* line 403 and lines 994-1237: the first run of the script loads the catalog
\* and shows the inspection form with the checklist of the template
Start ==
    /\ status.op = "start"
    /\ parts_data' = load_parts_data(file)
    /\ page' = show_inspection_form_page(parts_data', template, result_text,
                                         judgment_choice, inspector_name,
                                         selected, FALSE)
    /\ status' = [op |-> "loaded"]
    /\ UNCHANGED <<file, run, template, result_text, judgment_choice,
                   inspector_name, selected, judgeVars, csvVars>>

NextStart == Start

SpecStart == InitStart /\ [][NextStart]_vars

(***************************************************************************)
(* update_part called on any catalog file, for any part id.                *)
(***************************************************************************)

\* the data passed to update_part
UpdatedData ==
    {updated_part(id, form) :
        id \in PartIds,
        form \in {f \in EditForms : f.edit_name = <<"e">> /\ f.edit_storage = "shelf"
                                       /\ f.uploaded_image = NoImage}}

InitUpdate ==
    /\ file \in StoredFiles
    /\ status = [op |-> "start"]
    /\ parts_data = Idle
    /\ run = Idle
    /\ JudgeIdle
    /\ FormIdle
    /\ CsvIdle

\* lines 61-93: a call of update_part and what it returns
Update(part_id, updated_data, image_file) ==
    \E updated \in {update_part(file, part_id, updated_data, image_file)} :
        /\ file' = updated.file
        /\ status' = [op |-> "update_part", part_id |-> part_id, ok |-> updated.ok]
        /\ UNCHANGED <<parts_data, run, judgeVars, formVars, csvVars>>

NextUpdate ==
    \E part_id \in PartIds : \E updated_data \in UpdatedData :
        \E image_file \in {NoImage, ".jpg"} : Update(part_id, updated_data, image_file)

SpecUpdate == InitUpdate /\ [][NextUpdate]_vars

(***************************************************************************)
(* What the claims say about numbers: decimal text read exactly, as the    *)
(* rational num / 10^f.                                                    *)
(***************************************************************************)

\* a trimmed text is a decimal number: an optional sign, digits, at most one
\* decimal separator ("." or ","), at least one digit
IsNumberText(s) ==
    /\ \A i \in 1..Len(Unsigned(strip(s))) :
          Unsigned(strip(s))[i] \in Digits \cup {".", ","}
    /\ \E i \in 1..Len(Unsigned(strip(s))) : Unsigned(strip(s))[i] \in Digits
    /\ Cardinality({i \in 1..Len(Unsigned(strip(s))) :
                       Unsigned(strip(s))[i] \in {".", ","}}) <= 1

Exact(s) ==
    [num |-> (IF IsNegative(strip(s)) THEN -1 ELSE 1)
                * Numerator(replace(Unsigned(strip(s)), ",", ".")),
     f   |-> FracDigits(replace(Unsigned(strip(s)), ",", "."))]

ExactLe(a, b) == a.num * Pow10(b.f) <= b.num * Pow10(a.f)

ExactAdd(a, b) ==
    [num |-> a.num * Pow10(b.f) + b.num * Pow10(a.f), f |-> a.f + b.f]

ExactSub(a, b) ==
    [num |-> a.num * Pow10(b.f) - b.num * Pow10(a.f), f |-> a.f + b.f]

\* the pattern with separator sep is found and both of its groups are numbers
YieldsNumbers(criteria, sep) ==
    /\ re_search(criteria, sep) # None
    /\ IsDecimal(re_search(criteria, sep)[1])
    /\ IsDecimal(re_search(criteria, sep)[2])

Judged == outcome # Pending

Quantitative == call.item_no \notin QualitativeItems

OKSpellings == {<<a, b>> : a \in {"o", "O"}, b \in {"k", "K"}}

NGSpellings == {<<a, b>> : a \in {"n", "N"}, b \in {"g", "G"}}

(***************************************************************************)
(* Claims about auto_judge, under SpecJudge.                               *)
(***************************************************************************)

\* C5: for the checklist items 1 and 6, whatever the criteria text, the
\* verdict is Pass when the trimmed result is OK in any letter case, Fail
\* when it is NG in any letter case, and Indeterminate for every other
\* result, the empty and the whitespace-only result included.
C5_QualitativeVerdict ==
    (Judged /\ ~Quantitative) =>
        /\ outcome.kind = "return"
        /\ outcome.value =
              (IF strip(call.result) \in OKSpellings THEN PASS
               ELSE IF strip(call.result) \in NGSpellings THEN FAIL
               ELSE "")

C5_Witness ==
    /\ Judged
    /\ call.item_no = 6
    /\ call.result = <<" ", "o", "K">>
    /\ YieldsNumbers(call.criteria, PM)
    /\ outcome.value = PASS

\* C6: for the items 2 to 5, a numeric result and a criteria text holding a
\* tolerance pattern base+-tolerance, the verdict is Pass exactly when
\* base - tolerance <= result <= base + tolerance, both bounds included, and
\* Fail otherwise.
C6_ToleranceInclusive ==
    (Judged /\ Quantitative /\ IsNumberText(call.result)
            /\ YieldsNumbers(call.criteria, PM)) =>
        /\ outcome.kind = "return"
        /\ outcome.value =
              (IF /\ ExactLe(ExactSub(Exact(re_search(call.criteria, PM)[1]),
                                      Exact(re_search(call.criteria, PM)[2])),
                             Exact(call.result))
                  /\ ExactLe(Exact(call.result),
                             ExactAdd(Exact(re_search(call.criteria, PM)[1]),
                                      Exact(re_search(call.criteria, PM)[2])))
               THEN PASS ELSE FAIL)

\* C7: for the items 2 to 5, a numeric result and a criteria text with no
\* tolerance pattern but a range pattern min-max, the verdict is Pass exactly
\* when min <= result <= max, both bounds included, and Fail otherwise.
C7_RangeInclusive ==
    (Judged /\ Quantitative /\ IsNumberText(call.result)
            /\ re_search(call.criteria, PM) = None
            /\ YieldsNumbers(call.criteria, "-")) =>
        /\ outcome.kind = "return"
        /\ outcome.value =
              (IF /\ ExactLe(Exact(re_search(call.criteria, "-")[1]),
                             Exact(call.result))
                  /\ ExactLe(Exact(call.result),
                             Exact(re_search(call.criteria, "-")[2]))
               THEN PASS ELSE FAIL)

C7_Witness ==
    /\ Judged
    /\ Quantitative
    /\ call.result = <<".", "7">>
    /\ call.criteria = <<".", "1", "-", ".", "7">>
    /\ outcome = Return(PASS, "range")

\* C8 as stated: for every criteria text holding both the "+-" and the "-"
\* character, the verdict comes from the tolerance branch alone and the range
\* branch never decides.
C8_BothCharactersOnlyTolerance ==
    (Judged /\ Quantitative
            /\ Contains(call.criteria, PM) /\ Contains(call.criteria, "-")) =>
        ~(outcome.kind = "return" /\ outcome.branch = "range")

\* C8 amended: the tolerance check comes before the range check; for every
\* criteria text in which the tolerance pattern is found, the range branch
\* never decides, also when the text holds a range pattern as well.
C8_TolerancePatternOnlyTolerance ==
    (Judged /\ Quantitative /\ re_search(call.criteria, PM) # None) =>
        ~(outcome.kind = "return" /\ outcome.branch = "range")

C8_Witness ==
    /\ Judged
    /\ Quantitative
    /\ call.result = <<".", "8">>
    /\ call.criteria = <<".", "1", "-", ".", "7", PM, ".", "7">>
    /\ YieldsNumbers(call.criteria, "-")
    /\ outcome = Return(PASS, "tolerance")

\* C9: for the items 2 to 5, a result that is empty, whitespace-only or not a
\* decimal number gets the verdict Indeterminate whatever the criteria, and a
\* result written with "," as its decimal separator gets the verdict of the
\* same result written with ".".
C9_NonNumericIndeterminate ==
    (Judged /\ Quantitative) =>
        /\ ~IsNumberText(call.result) =>
              (outcome.kind = "return" /\ outcome.value = "")
        /\ outcome = auto_judge(call.item_no, replace(call.result, ",", "."),
                                call.criteria)

\* C10: for the items 2 to 5 and a numeric result, a criteria text in which
\* neither the tolerance nor the range pattern yields two numeric groups gets
\* the verdict Indeterminate; and auto_judge raises for no result and no
\* criteria text.
C10_UnusableCriteriaIndeterminate ==
    Judged =>
        /\ outcome.kind = "return"
        /\ (Quantitative /\ IsNumberText(call.result)
                /\ ~YieldsNumbers(call.criteria, PM)
                /\ ~YieldsNumbers(call.criteria, "-")) => outcome.value = ""

C10_Witness ==
    /\ Judged
    /\ Quantitative
    /\ IsNumberText(call.result)
    /\ re_search(call.criteria, PM) # None
    /\ ~YieldsNumbers(call.criteria, PM)
    /\ outcome = Return("", "except")

(***************************************************************************)
(* Claims about the inspection form, under SpecForm.                       *)
(***************************************************************************)

Verdicts == {page.results[i].judgment : i \in 1..Len(page.results)}

AllDetermined == "" \notin Verdicts

ExportEnabled == ~page.button_disabled

\* C2: the export is enabled exactly when every item has a determined
\* verdict, the aggregate verdict is Pass, the inspector's name is not empty
\* and a part is selected; with a failed item the export is disabled and the
\* "cannot export" message is shown; and a run exports only when enabled.
C2_ExportGate ==
    /\ ExportEnabled <=> (/\ AllDetermined
                          /\ page.overall_judgment = PASS
                          /\ inspector_name # ""
                          /\ selected # 0)
    /\ FAIL \in Verdicts => (~ExportEnabled /\ page.message = "cannot export")
    /\ page.export # NoExport => ExportEnabled

C2_Witness ==
    /\ page.export.kind = "download"
    /\ Len(page.results) = 6
    /\ AllDetermined
    /\ inspector_name # ""

\* C3 as stated: with six items, the aggregate verdict is Fail exactly when
\* some item is Fail, Pass exactly when all items are Pass, and undetermined
\* exactly when some item is Indeterminate.
C3_AggregateIffAnyFail ==
    Len(page.results) = 6 =>
        /\ page.overall_judgment = FAIL <=> FAIL \in Verdicts
        /\ page.overall_judgment = PASS <=> Verdicts = {PASS}
        /\ page.overall_judgment = "" <=> "" \in Verdicts

\* C3 amended: with six items, the aggregate verdict is Fail exactly when
\* every item is determined and some item is Fail, Pass exactly when all
\* items are Pass, and undetermined exactly when some item is Indeterminate.
C3_AggregateIffDeterminedAndFail ==
    Len(page.results) = 6 =>
        /\ page.overall_judgment = FAIL <=> (AllDetermined /\ FAIL \in Verdicts)
        /\ page.overall_judgment = PASS <=> Verdicts = {PASS}
        /\ page.overall_judgment = "" <=> "" \in Verdicts

C3_Witness ==
    /\ Len(page.results) = 6
    /\ Verdicts = {"", PASS, FAIL}
    /\ page.overall_judgment = ""

\* C4: once every item has a determined verdict the aggregate is Fail if some
\* item is Fail and Pass otherwise; while some item is Indeterminate the
\* aggregate is empty and the export is disabled, also when another item is
\* already Fail.
C4_AggregateOnlyWhenAllDetermined ==
    /\ AllDetermined =>
          page.overall_judgment = (IF FAIL \in Verdicts THEN FAIL ELSE PASS)
    /\ ~AllDetermined => (page.overall_judgment = "" /\ ~ExportEnabled)

C4_Witness ==
    /\ FAIL \in Verdicts
    /\ ~AllDetermined
    /\ inspector_name # ""
    /\ selected # 0
    /\ page.overall_judgment = ""
    /\ ~ExportEnabled

\* C27: when the template file exists and its six rows yield no item, the
\* aggregate verdict is undetermined and the export is disabled, whatever the
\* inspector's name and the selected part are
C27_NoExportOfEmptyChecklist ==
    (template # TemplateMissing /\ load_inspection_template(template) = <<>>)
        => (page.overall_judgment = "" /\ ~ExportEnabled)

\* C28: whenever the export is enabled, the selected option resolves to a
\* record of the catalog, for every id of the catalog, the ids that hold the
\* separator " - " included, and a press of the button never raises
C28_ExportOfExistingPart ==
    /\ ExportEnabled =>
          selected_part_data(parts_data, part_options(parts_data)[selected + 1]) # NoPart
    /\ page.export.kind # "raise"

(***************************************************************************)
(* Claims about the catalog, under Spec.                                   *)
(***************************************************************************)

\* C1: in every state reached by registrations, edits and imports, no two
\* records of the persisted catalog have the same id.
C1_UniqueIds ==
    \A i, j \in 1..Len(load_parts_data(file)) :
        i # j => load_parts_data(file)[i].id # load_parts_data(file)[j].id

(***************************************************************************)
(* What the claims say about the rows of an uploaded file.  As the comment *)
(* of line 169 has it, a drawing number or part name is empty when it is   *)
(* missing, blank or reads nan; an item type is empty when it is missing   *)
(* or blank.                                                               *)
(***************************************************************************)

ItemTypeOf(row) == IF row[2].notna THEN strip(row[2].str) ELSE <<>>

FieldEmpty(cell) == ~cell.notna \/ strip(cell.str) \in {<<>>, nan}

HasFields(rows) == \A i \in 1..Len(rows) : Len(rows[i]) >= 4

IsCategoryMarker(row) ==
    ItemTypeOf(row) # <<>> /\ FieldEmpty(row[3]) /\ FieldEmpty(row[4])

IsPartRow(row) ==
    ItemTypeOf(row) # <<>> /\ ~FieldEmpty(row[3]) /\ ~FieldEmpty(row[4])

Greatest(S) == CHOOSE k \in S : \A j \in S : j <= k

\* the category markers above row i
MarkersAbove(rows, i) == {j \in 1..(i - 1) : IsCategoryMarker(rows[j])}

\* the category a row i is under: the item type of the nearest marker above
CategoryAt(rows, i) ==
    IF MarkersAbove(rows, i) = {} THEN None
    ELSE ItemTypeOf(rows[Greatest(MarkersAbove(rows, i))])

PartRowsUpTo(rows, i) == {j \in 1..i : IsPartRow(rows[j])}

\* the draft the part row i has yielded
DraftOf(rows, i) == parts_list[Cardinality(PartRowsUpTo(rows, i))]

\* the product id of the part row i, as the code derives it
ProductIdAt(rows, i) == extract_product_from_drawing_number(strip(rows[i][3].str))

\* C11: after any number of rows, the current category is the item type of
\* the last category marker among them (none before the first marker), the
\* part rows among them have yielded one draft each, in order, and the
\* required_products of each draft is the single entry of its product id and
\* the category of the nearest marker above it when both are non-empty, and
\* empty otherwise
C11_CategoryAttribution ==
    HasFields(uploaded_file) =>
        /\ current_product_name = CategoryAt(uploaded_file, idx + 1)
        /\ Len(parts_list) = Cardinality(PartRowsUpTo(uploaded_file, idx))
        /\ \A i \in PartRowsUpTo(uploaded_file, idx) :
              DraftOf(uploaded_file, i).required_products =
                  IF ProductIdAt(uploaded_file, i) # <<>>
                     /\ CategoryAt(uploaded_file, i) # None
                  THEN <<[product_id |-> ProductIdAt(uploaded_file, i),
                          product_name |-> CategoryAt(uploaded_file, i),
                          notes |-> ""]>>
                  ELSE <<>>

\* two different markers, then a part row attributed to the second of them
C11_Witness ==
    /\ pc = "return"
    /\ Len(uploaded_file) = 3
    /\ IsCategoryMarker(uploaded_file[1])
    /\ IsCategoryMarker(uploaded_file[2])
    /\ ItemTypeOf(uploaded_file[1]) # ItemTypeOf(uploaded_file[2])
    /\ IsPartRow(uploaded_file[3])
    /\ Len(parts_list) = 1
    /\ Len(parts_list[1].required_products) = 1
    /\ parts_list[1].required_products[1].product_name = ItemTypeOf(uploaded_file[2])

Attribution(product_id, product_name) ==
    <<[product_id |-> product_id, product_name |-> product_name, notes |-> ""]>>

ExampleIds ==
    /\ Len(parts_list) = 3
    /\ parts_list[1].id = <<"D", "1", "-", "0", "1">>
    /\ parts_list[2].id = <<"D", "2", "-", "0", "2">>
    /\ parts_list[3].id = <<"D", "3", "-", "0", "3">>

\* C12 as stated: the example rows yield exactly the three drafts D1-01,
\* D2-02 and D3-03, the first two attributed to product D1 named P1 and the
\* third to product D3 named P2
C12_ExampleFirstTwoUnderD1 ==
    (uploaded_file = ExampleFile /\ pc = "return") =>
        /\ ExampleIds
        /\ parts_list[1].required_products = Attribution(<<"D", "1">>, <<"P", "1">>)
        /\ parts_list[2].required_products = Attribution(<<"D", "1">>, <<"P", "1">>)
        /\ parts_list[3].required_products = Attribution(<<"D", "3">>, <<"P", "2">>)

\* C12 amended: the example rows yield exactly the three drafts D1-01, D2-02
\* and D3-03, attributed to product D1 named P1, product D2 named P1 and
\* product D3 named P2
C12_ExampleOwnPrefixes ==
    (uploaded_file = ExampleFile /\ pc = "return") =>
        /\ ExampleIds
        /\ parts_list[1].required_products = Attribution(<<"D", "1">>, <<"P", "1">>)
        /\ parts_list[2].required_products = Attribution(<<"D", "2">>, <<"P", "1">>)
        /\ parts_list[3].required_products = Attribution(<<"D", "3">>, <<"P", "2">>)

C12_Witness == uploaded_file = ExampleFile /\ pc = "return" /\ Len(parts_list) = 3

\* the text before the first hyphen, the whole text when it has none
BeforeHyphen(s) ==
    IF \E i \in 1..Len(s) : s[i] = "-"
    THEN SubSeq(s, 1, Least({i \in 1..Len(s) : s[i] = "-"}) - 1)
    ELSE s

StartsWithMarker(s) ==
    Len(s) >= Len(RevisionMarker) /\ SubSeq(s, 1, Len(RevisionMarker)) = RevisionMarker

\* a leading marker and the surrounding whitespace stripped, nothing else
LeadingMarkerStripped(s) ==
    IF StartsWithMarker(strip(s))
    THEN strip(SubSeq(strip(s), Len(RevisionMarker) + 1, Len(strip(s))))
    ELSE strip(s)

\* the positions of s that an occurrence of the marker covers
InMarker(s) ==
    {i \in 1..Len(s) :
        \E k \in 1..Len(s) :
            /\ k <= i /\ i < k + Len(RevisionMarker)
            /\ k + Len(RevisionMarker) - 1 <= Len(s)
            /\ SubSeq(s, k, k + Len(RevisionMarker) - 1) = RevisionMarker}

RECURSIVE Without(_, _, _)
\* the characters of s from position i on that are not at a position of S
Without(s, S, i) ==
    IF i > Len(s) THEN <<>>
    ELSE IF i \in S THEN Without(s, S, i + 1)
    ELSE <<s[i]>> \o Without(s, S, i + 1)

\* every occurrence of the marker removed, then the whitespace around the
\* rest stripped
EveryMarkerStripped(s) == strip(Without(s, InMarker(s), 1))

\* C13 as stated: the id of the draft of a part row is its drawing number
\* with a leading marker and the surrounding whitespace stripped and nothing
\* else removed, and its product id is that id up to its first hyphen, the
\* whole id when it has none
C13_OnlyLeadingMarkerStripped ==
    HasFields(uploaded_file) =>
        \A i \in PartRowsUpTo(uploaded_file, idx) :
            /\ DraftOf(uploaded_file, i).id = LeadingMarkerStripped(uploaded_file[i][3].str)
            /\ ProductIdAt(uploaded_file, i) = BeforeHyphen(DraftOf(uploaded_file, i).id)

\* C13 amended: the id of the draft of a part row is its drawing number with
\* every occurrence of the marker removed and the surrounding whitespace
\* stripped, and its product id is that id up to its first hyphen, the whole
\* id when it has none
C13_EveryMarkerStripped ==
    HasFields(uploaded_file) =>
        \A i \in PartRowsUpTo(uploaded_file, idx) :
            /\ DraftOf(uploaded_file, i).id = EveryMarkerStripped(uploaded_file[i][3].str)
            /\ ProductIdAt(uploaded_file, i) = BeforeHyphen(DraftOf(uploaded_file, i).id)
            /\ DraftOf(uploaded_file, i).required_products # <<>> =>
                  DraftOf(uploaded_file, i).required_products[1].product_id
                      = BeforeHyphen(DraftOf(uploaded_file, i).id)

\* a part row with a marker after the first character of its drawing number,
\* and one with a leading marker and a hyphen, have yielded their drafts
C13_Witness ==
    /\ pc = "return"
    /\ HasFields(uploaded_file)
    /\ \E i \in PartRowsUpTo(uploaded_file, idx) :
          /\ ~StartsWithMarker(strip(uploaded_file[i][3].str))
          /\ InMarker(uploaded_file[i][3].str) # {}
    /\ \E i \in PartRowsUpTo(uploaded_file, idx) :
          /\ StartsWithMarker(strip(uploaded_file[i][3].str))
          /\ DraftOf(uploaded_file, i).required_products # <<>>
          /\ DraftOf(uploaded_file, i).required_products[1].product_id
                # DraftOf(uploaded_file, i).id

ImportStep(overwrite) == status'.op = "import" /\ status'.overwrite = overwrite

EditStep == status'.op = "edit" /\ status'.error = "none"

\* the drafts whose id is (known = TRUE) or is not (known = FALSE) the id of
\* a record of the catalog, in draft order
DraftsKnown(drafts, catalog, known) ==
    LET Chosen(d) == (\E i \in 1..Len(catalog) : catalog[i].id = d.id) = known
    IN  SelectSeq(drafts, Chosen)

Stored(part, catalog) == \E j \in 1..Len(catalog) : catalog[j] = part

\* C15: an import with overwrite off skips the drafts whose id is exactly the
\* id of an existing record, counts them in skip, counts the other drafts in
\* success, and stores the existing catalog, unchanged and in its order,
\* followed by the other drafts in draft order
C15_ImportWithoutOverwrite ==
    [][ImportStep(FALSE) =>
          /\ status'.skip =
                 Len(DraftsKnown(status'.parsed_parts, load_parts_data(file), TRUE))
          /\ status'.success =
                 Len(DraftsKnown(status'.parsed_parts, load_parts_data(file), FALSE))
          /\ load_parts_data(file') =
                 load_parts_data(file)
                     \o DraftsKnown(status'.parsed_parts, load_parts_data(file), FALSE)]_vars

\* an import with overwrite off has skipped a draft and added another whose
\* id differs from the id of a stored record in case only
C15_Witness ==
    /\ status.op = "import"
    /\ ~status.overwrite
    /\ status.skip = 1
    /\ status.success = 1
    /\ Len(load_parts_data(file)) = 2
    /\ load_parts_data(file)[1].id # load_parts_data(file)[2].id
    /\ upper(load_parts_data(file)[1].id) = upper(load_parts_data(file)[2].id)
    /\ load_parts_data(file)[2] = status.parsed_parts[Len(status.parsed_parts)]

\* C16: after an import with overwrite on, every draft is stored with its own
\* values, in place of the existing record of its id or as a new record,
\* success is the number of drafts with an existing id plus the number of the
\* others, and skip is 0
C16_ImportWithOverwrite ==
    [][ImportStep(TRUE) =>
          /\ \A k \in 1..Len(status'.parsed_parts) :
                /\ Stored(status'.parsed_parts[k], load_parts_data(file'))
                /\ \A j \in 1..Len(load_parts_data(file')) :
                      load_parts_data(file')[j].id = status'.parsed_parts[k].id
                          => load_parts_data(file')[j] = status'.parsed_parts[k]
          /\ status'.success =
                 Len(DraftsKnown(status'.parsed_parts, load_parts_data(file), TRUE))
                 + Len(DraftsKnown(status'.parsed_parts, load_parts_data(file), FALSE))
          /\ status'.skip = 0]_vars

\* C17: an import with overwrite on stores, unchanged, every existing record
\* whose id is not the id of a draft
C17_OverwriteKeepsOtherRecords ==
    [][ImportStep(TRUE) =>
          \A i \in 1..Len(load_parts_data(file)) :
              (\A k \in 1..Len(status'.parsed_parts) :
                  status'.parsed_parts[k].id # load_parts_data(file)[i].id)
              => Stored(load_parts_data(file)[i], load_parts_data(file'))]_vars

\* C18: an import with overwrite off of the draft list that the run before
\* imported with overwrite off has success 0, skip the number of drafts, and
\* leaves the catalog as it was
C18_ImportTwice ==
    [][(ImportStep(FALSE) /\ status'.repeated) =>
          /\ status'.success = 0
          /\ status'.skip = Len(status'.parsed_parts)
          /\ load_parts_data(file') = load_parts_data(file)]_vars

\* the second import in a row of a list of two drafts, with overwrite off
C18_Witness ==
    /\ status.op = "import"
    /\ ~status.overwrite
    /\ status.repeated
    /\ Len(status.parsed_parts) = 2
    /\ status.success = 0
    /\ status.skip = 2
    /\ \A k \in 1..2 : Stored(status.parsed_parts[k], load_parts_data(file))

\* the position of the record that the edit form of part_id shows
EditedAt(catalog, part_id) ==
    CHOOSE i \in 1..Len(catalog) :
        /\ catalog[i].id = part_id
        /\ \A j \in 1..(i - 1) : catalog[j].id # part_id

\* C19: after a successful update through the edit form of the part P, the
\* record at the position of the edited record has the id P, and every
\* position of the catalog holds the id it held before
C19_EditKeepsIds ==
    [][EditStep =>
          /\ Len(load_parts_data(file')) = Len(load_parts_data(file))
          /\ load_parts_data(file')[EditedAt(load_parts_data(file), status'.part_id)].id
                 = status'.part_id
          /\ \A i \in 1..Len(load_parts_data(file)) :
                load_parts_data(file')[i].id = load_parts_data(file)[i].id]_vars

\* a successful edit of a record of a catalog of two records
C19_Witness ==
    /\ status.op = "edit"
    /\ status.error = "none"
    /\ Len(load_parts_data(file)) = 2
    /\ \E i \in 1..2 :
          /\ load_parts_data(file)[i].id = status.part_id
          /\ load_parts_data(file)[i].name = <<"e">>

HasImage(part) == part.image_file # NoImage

\* two records refer to the same image, or both to none
SameImage(before, after) ==
    IF HasImage(before) /\ HasImage(after)
    THEN after.image_file = before.image_file
    ELSE HasImage(before) = HasImage(after)

\* C20: a successful edit without a new image leaves the image_file of the
\* edited record as it was, so that the reference differs after an edit only
\* when a new image was supplied
C20_EditKeepsImage ==
    [][EditStep =>
          /\ status'.uploaded_image = NoImage =>
                SameImage(load_parts_data(file)[EditedAt(load_parts_data(file),
                                                         status'.part_id)],
                          load_parts_data(file')[EditedAt(load_parts_data(file),
                                                          status'.part_id)])
          /\ ~SameImage(load_parts_data(file)[EditedAt(load_parts_data(file),
                                                        status'.part_id)],
                         load_parts_data(file')[EditedAt(load_parts_data(file),
                                                         status'.part_id)])
                => status'.uploaded_image # NoImage]_vars

\* a successful edit without a new image of a record that has an image
C20_Witness ==
    /\ status.op = "edit"
    /\ status.error = "none"
    /\ status.uploaded_image = NoImage
    /\ \E i \in 1..Len(load_parts_data(file)) :
          /\ load_parts_data(file)[i].id = status.part_id
          /\ load_parts_data(file)[i].name = <<"e">>
          /\ HasImage(load_parts_data(file)[i])

\* C24: in both overwrite modes, for every draft list and existing catalog, an
\* import reports a success count and a skip count that add up to the number
\* of drafts, and an error count of 0
C24_CountsAddUp ==
    [][status'.op = "import" =>
          /\ status'.success + status'.skip = Len(status'.parsed_parts)
          /\ status'.error = 0]_vars

\* an import with overwrite on of two drafts of different ids, both stored
C24_Witness ==
    /\ status.op = "import"
    /\ status.overwrite
    /\ Len(status.parsed_parts) = 2
    /\ status.parsed_parts[1].id # status.parsed_parts[2].id
    /\ status.success = 2
    /\ status.skip = 0
    /\ Len(load_parts_data(file)) = 2

\* C26: every draft that parse_csv_file returns has a non-empty id, for every
\* sequence of rows, the part rows whose drawing number is nothing but the
\* [R] marker and whitespace included
C26_DraftIdsNonEmpty ==
    pc = "return" => \A k \in 1..Len(parts_list) : parts_list[k].id # <<>>

\* a record without its image_file
SubmittedData(part) == [k \in (DOMAIN part) \ {"image_file"} |-> part[k]]

\* C30: after a successful edit the stored record is exactly the data the edit
\* form submits for it, plus image_file: no other key of the record it
\* replaces, such as the item_type of an imported record, is left in it
C30_EditReplacesRecord ==
    [][EditStep =>
          /\ \E form \in EditForms :
                SubmittedData(load_parts_data(file')[EditedAt(load_parts_data(file),
                                                              status'.part_id)])
                    = updated_part(status'.part_id, form)
          /\ "image_file" \in
                 DOMAIN load_parts_data(file')[EditedAt(load_parts_data(file),
                                                        status'.part_id)]
          /\ "item_type" \notin
                 DOMAIN load_parts_data(file')[EditedAt(load_parts_data(file),
                                                        status'.part_id)]]_vars

\* the two records of an import of two drafts of one id, the first of them
\* edited since: it has lost the item_type that the second still has
C30_Witness ==
    /\ status.op = "edit"
    /\ status.error = "none"
    /\ Len(load_parts_data(file)) = 2
    /\ load_parts_data(file)[1].id = status.part_id
    /\ load_parts_data(file)[1].name = <<"e">>
    /\ "item_type" \notin DOMAIN load_parts_data(file)[1]
    /\ load_parts_data(file)[2].id = status.part_id
    /\ "item_type" \in DOMAIN load_parts_data(file)[2]

\* the record that a registration appended
Registered == load_parts_data(file')[Len(load_parts_data(file'))]

\* C21: a registration writes the catalog only when the submitted data pass
\* validation, that is when the id, the name, the category and the storage
\* are filled in, the id is not the id of a record of the catalog, and there
\* is an inspection item; then it appends that one record.  Any other
\* registration reports one of the three errors and leaves the persisted
\* catalog as it was
C21_FailedRegistrationWritesNothing ==
    [][status'.op = "register" =>
          IF file' # file
          THEN /\ status'.error = "none"
               /\ Len(load_parts_data(file')) = Len(load_parts_data(file)) + 1
               /\ SubSeq(load_parts_data(file'), 1, Len(load_parts_data(file)))
                      = load_parts_data(file)
               /\ Registered.id # <<>>
               /\ Registered.name # <<>>
               /\ Registered.category # ""
               /\ Registered.storage # ""
               /\ ~HasId(load_parts_data(file), Registered.id)
               /\ Registered.inspection_items # <<>>
               /\ \A k \in 1..Len(Registered.inspection_items) :
                     Registered.inspection_items[k] # ""
          ELSE status'.error \in {"required", "exists", "inspection"}]_vars

\* a registration of an id that the catalog holds was refused
C21_Witness ==
    /\ status.op = "register"
    /\ status.error = "exists"
    /\ Len(load_parts_data(file)) = 1
    /\ load_parts_data(file)[1].id \in PartIds

(***************************************************************************)
(* What the claims say about two sessions, under SpecSessions: a step      *)
(* that ends the run of a session is the write, if any, of that session.   *)
(***************************************************************************)

ImportBy(s) == run[s].op = "import" /\ run'[s] = NoRun

RegistrationBy(s) == run[s].op = "register" /\ run'[s] = NoRun

\* C22: when a session saves the import it built from the catalog it loaded,
\* the persisted catalog is afterwards exactly that import, every record that
\* was saved since the load and is not part of the import is gone, no error
\* is reported to the importing session and nothing at all to the other
C22_LaterWriteWins ==
    [][\A s \in Sessions :
          ImportBy(s) =>
              /\ load_parts_data(file') =
                     import_parts_from_csv(run[s].parsed_parts, parts_data[s],
                                           run[s].overwrite).result_parts
              /\ \A i \in 1..Len(load_parts_data(file)) :
                    Stored(load_parts_data(file)[i], load_parts_data(file'))
                        => \/ Stored(load_parts_data(file)[i], parts_data[s])
                           \/ Stored(load_parts_data(file)[i], run[s].parsed_parts)
              /\ status'[s].op = "import"
              /\ status'[s].error = 0
              /\ status'[s].success + status'[s].skip = Len(run[s].parsed_parts)
              /\ \A t \in Sessions \ {s} : status'[t] = status[t]]_vars

\* the last thing one session did was to register the part B with success,
\* the last thing the other did was to import, and the catalog has no part B
C22_Witness ==
    /\ status["s1"].op = "register"
    /\ status["s1"].new_id = <<"B">>
    /\ status["s1"].error = "none"
    /\ status["s2"].op = "import"
    /\ status["s2"].error = 0
    /\ ~HasId(load_parts_data(file), <<"B">>)

\* C29: a registration appends a record only when its id is not the id of a
\* record of the persisted catalog at the time of the append, also when the
\* other session registered the id after this session's run loaded the
\* catalog
C29_RegistrationChecksStoredCatalog ==
    [][\A s \in Sessions :
          (RegistrationBy(s) /\ file' # file)
              => ~HasId(load_parts_data(file), run[s].form.new_id)]_vars

(***************************************************************************)
(* Claims about the start of the script, under SpecStart, and about a call *)
(* of update_part, under SpecUpdate.                                       *)
(***************************************************************************)

\* C23: the script starts without an error on a missing catalog file, which
\* it reads as the empty catalog, and on a missing template file, for which
\* the form shows six items with the ordinals 1 to 6 and the item names and
\* criteria of the six rows that create_template.py writes
C23_MissingFilesReadAsDefaults ==
    status.op = "loaded" =>
        /\ ~file.exists => parts_data = <<>>
        /\ template = TemplateMissing =>
              /\ Len(page.results) = 6
              /\ \A i \in 1..6 :
                    /\ page.results[i].no = i
                    /\ page.results[i].item = CreatedTemplate[i].item
                    /\ page.results[i].criteria = CreatedTemplate[i].criteria

\* the script has started with neither file
C23_Witness ==
    /\ status.op = "loaded"
    /\ ~file.exists
    /\ template = TemplateMissing
    /\ parts_data = <<>>
    /\ Len(page.results) = 6
    /\ page.button_disabled

\* C25: a call of update_part for an id that some record has replaces the
\* first record of that id and leaves the length of the catalog and every
\* other record, at its position, as they were; a call for an id that no
\* record has returns False and leaves the file as it was
C25_UpdateChangesOneRecord ==
    [][status'.op = "update_part" =>
          IF HasId(load_parts_data(file), status'.part_id)
          THEN /\ status'.ok
               /\ Len(load_parts_data(file')) = Len(load_parts_data(file))
               /\ \A i \in 1..Len(load_parts_data(file)) :
                     i # EditedAt(load_parts_data(file), status'.part_id)
                         => load_parts_data(file')[i] = load_parts_data(file)[i]
               /\ "item_type" \notin
                      DOMAIN load_parts_data(file')[EditedAt(load_parts_data(file),
                                                             status'.part_id)]
          ELSE /\ ~status'.ok
               /\ file' = file]_vars

\* update_part has replaced the first of two records of one id
C25_Witness ==
    /\ status.op = "update_part"
    /\ status.ok
    /\ Len(load_parts_data(file)) = 2
    /\ "item_type" \notin DOMAIN load_parts_data(file)[1]
    /\ load_parts_data(file)[2] \in Drafts
    /\ load_parts_data(file)[2].id = status.part_id

=============================================================================
